---- MODULE Spec2Model ----
(***************************************************************************)
(* A model of the JTAG command/transport core of nafa: the TAP state       *)
(* machine and its path table (nafa-io/src/jtag.rs), the cable backends    *)
(* (fake_backend.rs, ftdi.rs, xpc.rs), the chain detector and the          *)
(* Controller (controller.rs).                                             *)
(***************************************************************************)
EXTENDS Integers, Sequences, FiniteSets, TLC

(***************************************************************************)
(* Integer helpers for fixed-width arithmetic.                             *)
(***************************************************************************)
Pow2(n) == 2 ^ n

\* bit i of the non-negative integer x
BitAt(x, i) == (x \div Pow2(i)) % 2

\* the sum of q[lo..hi], taken by halves
RECURSIVE SumRange(_, _, _)
SumRange(q, lo, hi) ==
    IF lo > hi THEN 0
    ELSE IF lo = hi THEN q[lo]
    ELSE SumRange(q, lo, (lo + hi) \div 2) + SumRange(q, ((lo + hi) \div 2) + 1, hi)

Min(a, b) == IF a < b THEN a ELSE b
Max(a, b) == IF a > b THEN a ELSE b

\* F of the value of e: e is computed once, before F uses it (a let binding,
\* the result of an awaited call)
Bind(e, F(_)) == CHOOSE r \in { F(x) : x \in { e } } : TRUE

\* u8::reverse_bits
ReverseBits8(x) ==
    BitAt(x, 0) * 128 + BitAt(x, 1) * 64 + BitAt(x, 2) * 32 + BitAt(x, 3) * 16
      + BitAt(x, 4) * 8 + BitAt(x, 5) * 4 + BitAt(x, 6) * 2 + BitAt(x, 7)

(***************************************************************************)
(* jtag.rs: the 16 TAP states, in declaration order (the u8 discriminant   *)
(* of a state is its position in VARIANTS minus one).                      *)
(***************************************************************************)
VARIANTS ==
    << "TestLogicReset", "RunTestIdle", "SelectDR", "CaptureDR", "ShiftDR",
       "Exit1DR", "PauseDR", "Exit2DR", "UpdateDR", "SelectIR", "CaptureIR",
       "ShiftIR", "Exit1IR", "PauseIR", "Exit2IR", "UpdateIR" >>

State == { VARIANTS[i] : i \in 1..Len(VARIANTS) }

\* State::edges: the pair <<successor on TMS=0, successor on TMS=1>>
edges(s) ==
    CASE s = "TestLogicReset" -> << "RunTestIdle", "TestLogicReset" >>
      [] s = "RunTestIdle"    -> << "RunTestIdle", "SelectDR" >>
      [] s = "SelectDR"       -> << "CaptureDR", "SelectIR" >>
      [] s = "CaptureDR"      -> << "ShiftDR", "Exit1DR" >>
      [] s = "ShiftDR"        -> << "ShiftDR", "Exit1DR" >>
      [] s = "Exit1DR"        -> << "PauseDR", "UpdateDR" >>
      [] s = "PauseDR"        -> << "PauseDR", "Exit2DR" >>
      [] s = "Exit2DR"        -> << "ShiftDR", "UpdateDR" >>
      [] s = "UpdateDR"       -> << "RunTestIdle", "SelectDR" >>
      [] s = "SelectIR"       -> << "CaptureIR", "TestLogicReset" >>
      [] s = "CaptureIR"      -> << "ShiftIR", "Exit1IR" >>
      [] s = "ShiftIR"        -> << "ShiftIR", "Exit1IR" >>
      [] s = "Exit1IR"        -> << "PauseIR", "UpdateIR" >>
      [] s = "PauseIR"        -> << "PauseIR", "Exit2IR" >>
      [] s = "Exit2IR"        -> << "ShiftIR", "UpdateIR" >>
      [] s = "UpdateIR"       -> << "RunTestIdle", "SelectDR" >>

\* GRAPH[s][dir], dir a bool (Index<bool> for Edges: false -> 0, true -> 1)
GRAPH(s, dir) == edges(s)[IF dir THEN 2 ELSE 1]

\* struct Path { path: u8, len: u8 }
MkPath(p, l) == [path |-> p, len |-> l]

\* a reset path one cycle short
PathRESET_four == MkPath(15, 4)

\* Path::RESET and Path::IDLE
PathRESET == MkPath(255, 5)
PathIDLE == MkPath(62, 6)

\* PathIter::next at position idx: Some(path >> (len - idx - 1) & 1 == 1)
PathBit(p, idx) == BitAt(p.path, p.len - idx - 1) = 1

\* the bools a `for bit in path` loop sees, in iteration order
PathBits(p) == [i \in 1..p.len |-> PathBit(p, i - 1)]

\* Path::as_clocked: self.path.reverse_bits() >> (8 - self.len)
as_clocked(p) == ReverseBits8(p.path) \div Pow2(8 - p.len)

\* The loop of get_path, one generation of the queue at a time.  The queue
\* always holds the unpopped paths of length n followed by the paths of
\* length n + 1 pushed so far, each group in push order, so the loop pops the
\* whole of `level` (front first) before any extension of it.  The first
\* popped entry that ends in `end` is returned; an entry that does not is
\* replaced, at the back, by its TMS=0 and then its TMS=1 extension.
\* `path << 1` is a u8 shift: a bit shifted above bit 7 is dropped.
\* the last entry of the generation that ends in `end`, not the first
first_hit_takes_last(level, end) ==
    LET hits == { i \in 1..Len(level) : level[i][2] = end }
    IN  IF hits = {} THEN 0 ELSE CHOOSE i \in hits : \A j \in hits : i >= j

first_hit(level, end) ==
    LET hits == { i \in 1..Len(level) : level[i][2] = end }
    IN  IF hits = {} THEN 0 ELSE CHOOSE i \in hits : \A j \in hits : i <= j

\* the pushed path keeps the old bits unshifted
push_back_noshift(entry, dir) ==
    << MkPath((entry[1].path % 256) + (IF dir THEN 1 ELSE 0), entry[1].len + 1),
       GRAPH(entry[2], dir) >>

push_back(entry, dir) ==
    LET cur_path == entry[1]
        cur_end == entry[2]
    IN  << MkPath(((cur_path.path * 2) % 256) + (IF dir THEN 1 ELSE 0),
                  cur_path.len + 1),
           GRAPH(cur_end, dir) >>

RECURSIVE get_path_loop(_, _)
get_path_loop(level, end) ==
    LET hit == first_hit(level, end)
    IN  IF hit # 0
          THEN level[hit][1]
          ELSE get_path_loop(
                 [i \in 1..(2 * Len(level)) |->
                    push_back(level[(i + 1) \div 2], i % 2 = 0)],
                 end)

\* a table whose diagonal is the empty path
get_path_empty_diagonal(start, end) ==
    IF start = end
      THEN MkPath(0, 0)
      ELSE get_path_loop(<< << MkPath(0, 1), GRAPH(start, FALSE) >>,
                            << MkPath(1, 1), GRAPH(start, TRUE) >> >>, end)

get_path(start, end) ==
    get_path_loop(<< << MkPath(0, 1), GRAPH(start, FALSE) >>,
                     << MkPath(1, 1), GRAPH(start, TRUE) >> >>, end)

\* static PATHS: the 16 x 16 table, filled once
PATHS == [start \in State |-> [end \in State |-> get_path(start, end)]]

\* tests::follow_path
RECURSIVE follow_bits(_, _, _)
follow_bits(cur, bits, i) ==
    IF i > Len(bits) THEN cur ELSE follow_bits(GRAPH(cur, bits[i]), bits, i + 1)

follow_path(start, path) == follow_bits(start, PathBits(path), 1)

(***************************************************************************)
(* The wire.  A cycle is one TCK period with the levels of TMS and TDI and *)
(* whether TDO is sampled (fake_backend.rs, struct Cycle).  Cycles are     *)
(* kept run-length encoded: a run is n equal consecutive cycles.  tck is   *)
(* FALSE only for the XPC's filler slots, which raise no clock edge.       *)
(***************************************************************************)
Cyc(tms, tdi, tdo, n) == [tms |-> tms, tdi |-> tdi, tdo |-> tdo, tck |-> TRUE, n |-> n]

SameLevels(r, q) ==
    r.tms = q.tms /\ r.tdi = q.tdi /\ r.tdo = q.tdo /\ r.tck = q.tck

\* Vec::push of r.n equal cycles
AddRun(w, r) ==
    IF r.n = 0 THEN w
    ELSE IF Len(w) > 0 /\ SameLevels(w[Len(w)], r)
      THEN [w EXCEPT ![Len(w)].n = @ + r.n]
      ELSE Append(w, r)

\* two sequences of cycles one after the other: the runs that meet are one
\* run when their levels are equal
Join(a, b) ==
    IF Len(a) = 0 THEN b
    ELSE IF Len(b) = 0 THEN a
    ELSE IF SameLevels(a[Len(a)], b[1])
      THEN [a EXCEPT ![Len(a)].n = @ + b[1].n] \o Tail(b)
      ELSE a \o b

\* the cycles rs[lo..hi] in order, run-length encoded (the range is taken by
\* halves)
RECURSIVE Pack(_, _, _)
Pack(rs, lo, hi) ==
    IF lo > hi THEN << >>
    ELSE IF lo = hi THEN (IF rs[lo].n = 0 THEN << >> ELSE << rs[lo] >>)
    ELSE Join(Pack(rs, lo, (lo + hi) \div 2), Pack(rs, ((lo + hi) \div 2) + 1, hi))

\* Vec::push of the cycles rs[i..] in order
AddRuns(w, rs, i) == Join(w, Pack(rs, i, Len(rs)))

\* the cycles of the bits idx.. of a path, TMS from the path
PathRuns(path, idx, tdi, tdo) ==
    [k \in 1..(path.len - idx) |-> Cyc(PathBit(path, idx + k - 1), tdi, tdo, 1)]

\* the cycles of the first nbits bits of the bytes of data, least
\* significant bit first, TMS at level tms
ByteRuns(data, nbits, tms, tdo) ==
    [k \in 1..nbits |->
        Cyc(tms, BitAt(data[((k - 1) \div 8) + 1], (k - 1) % 8) = 1, tdo, 1)]

\* the TAP state after n cycles with TMS at level tms, from state s: a state
\* that is its own successor absorbs all the cycles that are left
RECURSIVE StepN(_, _, _)
StepN(s, tms, n) ==
    IF n = 0 \/ GRAPH(s, tms) = s THEN s ELSE StepN(GRAPH(s, tms), tms, n - 1)

\* the TAP state after the runs w[lo..hi] as a function of the state before
\* them (the range is taken by halves)
RECURSIVE TapMap(_, _, _)
TapMap(w, lo, hi) ==
    IF lo > hi THEN [s \in State |-> s]
    ELSE IF lo = hi
      THEN [s \in State |-> IF w[lo].tck THEN StepN(s, w[lo].tms, w[lo].n) ELSE s]
    ELSE LET f == TapMap(w, lo, (lo + hi) \div 2)
             g == TapMap(w, ((lo + hi) \div 2) + 1, hi)
         IN  [s \in State |-> g[f[s]]]

\* the TAP state after the runs w[i..], from state s
Replay(s, w, i) == TapMap(w, i, Len(w))[s]

(***************************************************************************)
(* backend.rs: Data, Option<Path> and the output Buffer.  The buffer and   *)
(* the read requests a backend has queued are kept as segments             *)
(* [tag, n]: n consecutive bytes requested on behalf of the command tag.   *)
(***************************************************************************)
None == << >>
Some(x) == << x >>
IsSome(o) == Len(o) = 1

DataTx(tdi) == [variant |-> "Tx", tdi |-> tdi, len |-> Len(tdi), bit |-> TRUE]
DataTxRx(tdi) == [variant |-> "TxRx", tdi |-> tdi, len |-> Len(tdi), bit |-> TRUE]
DataRx(len) == [variant |-> "Rx", tdi |-> << >>, len |-> len, bit |-> TRUE]
DataConstantTx(bit, len) == [variant |-> "ConstantTx", tdi |-> << >>, len |-> len, bit |-> bit]

Seg(tag, n) == [tag |-> tag, n |-> n]

AddSeg(segs, tag, n) ==
    IF n = 0 THEN segs
    ELSE IF Len(segs) > 0 /\ segs[Len(segs)].tag = tag
      THEN [segs EXCEPT ![Len(segs)].n = @ + n]
      ELSE Append(segs, Seg(tag, n))

RECURSIVE SegBytes(_, _)
SegBytes(segs, i) == IF i > Len(segs) THEN 0 ELSE segs[i].n + SegBytes(segs, i + 1)

\* the transfer fills the `size` new bytes of the buffer, front to back, with
\* the device's answers to the queued read requests in the order they were
\* queued; bytes the device has no answer for keep the tag "none"
RECURSIVE FillSlot(_, _, _, _)
FillSlot(out, size, reads, i) ==
    IF size = 0 THEN out
    ELSE IF i > Len(reads) THEN AddSeg(out, "none", size)
    ELSE FillSlot(AddSeg(out, reads[i].tag, Min(size, reads[i].n)),
                  size - Min(size, reads[i].n), reads, i + 1)

\* a buffer whose extend() hands out room at the front
BufferExtend_at_front(buf, size, reads) ==
    FillSlot(<< >>, size, reads, 1) \o buf

\* NoisyBuffer::extend and NoisyBuffer::notify_write: fetch_add(size) on the
\* counter; the plain Vec<u8> has no counter
Notified(io, size) == IF io.noisy THEN io.count + size ELSE io.count

\* impl Buffer for Vec<u8>: extend(size) grows the vector at its end and
\* hands out the new tail, which the transfer then fills
BufferExtend(buf, size, reads) == FillSlot(buf, size, reads, 1)

(***************************************************************************)
(* The state a backend call works on: the backend's own fields             *)
(* (cmd_len = cmd_buf.len(), cmd_read_len / read_len, num_bits), the       *)
(* levels the FTDI chip holds on TMS and TDI between commands, the read    *)
(* requests queued since the last transfer, the caller's buffer, the       *)
(* cycles handed to the cable since the window was opened, the number of   *)
(* transfers done, whether the build checks integer overflow (a debug      *)
(* build panics on it, a release build wraps) and whether a panic has      *)
(* happened; whether the buffer handed to the call is the NoisyBuffer and  *)
(* what the calls have added to its counter; the largest number of bytes  *)
(* one transfer has asked the cable to return since the window was opened; *)
(* for the XPC cable, the cycles queued with the sample bit set since the  *)
(* last transfer and whether a transfer of the window has gone out with a  *)
(* number of them other than eight for each byte it reads.                 *)
(***************************************************************************)
NewIo(k, checked) ==
    [kind |-> k, checked |-> checked, cmd_len |-> 0, cmd_read_len |-> 0, num_bits |-> 0,
     tms_level |-> FALSE, tdi_level |-> TRUE,
     reads |-> << >>, buf |-> << >>, wire |-> << >>, tag |-> 0,
     xfers |-> 0, panicked |-> FALSE,
     fuse |-> -1, failed |-> FALSE, calls |-> 0,
     noisy |-> FALSE, count |-> 0, asked |-> 0, sampled |-> 0, uneven |-> FALSE]

(***************************************************************************)
(* A u32 is kept as its 32 bits, least significant first (a 32-bit value   *)
(* does not fit the model checker's integers).                             *)
(***************************************************************************)
\* (of a value below 2^31)
U32(x) == [i \in 1..32 |-> IF i <= 31 THEN BitAt(x, i - 1) ELSE 0]
U32MAX == [i \in 1..32 |-> 1]
U32ZERO == [i \in 1..32 |-> 0]

\* data >> k
ShiftR(d, k) == SubSeq(d, k + 1, 32) \o [i \in 1..Min(k, 32) |-> 0]

\* data & 1 == 1
LowBit(d) == d[1] = 1

\* data as u8
AsU8(d) == d[1] + 2 * d[2] + 4 * d[3] + 8 * d[4] + 16 * d[5] + 32 * d[6]
             + 64 * d[7] + 128 * d[8]

\* the cycles that shift out the low n bits of data, least significant bit
\* first (data >>= 1 after each): past bit 31 only zeros are left
WordRuns(data, n, tms) ==
    [k \in 1..Min(n, 32) |-> Cyc(tms, data[k] = 1, FALSE, 1)]
      \o (IF n > 32 THEN << Cyc(tms, FALSE, FALSE, n - 32) >> ELSE << >>)

\* `len.0 - 1` on a u8
SubOne(len, checked) == IF len > 0 THEN len - 1 ELSE IF checked THEN -1 ELSE 255

(***************************************************************************)
(* fake_backend.rs: FakeBackend records every cycle (io.wire is its        *)
(* `cycles`, io.cmd_read_len its `read_len`).                              *)
(***************************************************************************)
\* FakeBackend::add_bit
Fake_add_bit(io, tms, tdi, tdo) == [io EXCEPT !.wire = AddRun(@, Cyc(tms, tdi, tdo, 1))]

\* for tms in path { self.add_bit(tms, true, false) }
Fake_tms_from(io, path, idx) ==
    [io EXCEPT !.wire = AddRuns(@, PathRuns(path, idx, TRUE, FALSE), 1)]

Fake_tms(io, path) == Fake_tms_from(io, path, 0)

\* the `after` block of bytes and bits: the first TMS bit carries the last
\* data bit, the other bits are clocked with TDI high and TDO unsampled
Fake_after(io, after, last_tdi, last_tdo) ==
    IF ~IsSome(after) \/ after[1].len = 0 THEN io
    ELSE Fake_tms_from(Fake_add_bit(io, PathBit(after[1], 0), last_tdi, last_tdo),
                       after[1], 1)

\* the loop over tdi.iter().enumerate() of the Tx / TxRx arm
Fake_tx_loop(io, tdi, tdo, merge, idx) ==
    [io EXCEPT !.wire =
        AddRuns(@, ByteRuns(tdi, IF merge /\ Len(tdi) > 0 THEN 8 * Len(tdi) - 1
                                    ELSE 8 * Len(tdi), FALSE, tdo),
                8 * (idx - 1) + 1)]

\* an Rx / ConstantTx arm that clocks all eight cycles of the last byte
Fake_const_loop_no_merge(io, tdi, tdo, merge, len) ==
    [io EXCEPT !.wire = AddRun(@, Cyc(FALSE, tdi, tdo, 8 * len))]

\* the loop `for idx in 0..len.0` of the Rx / ConstantTx arm: eight equal
\* cycles per byte, seven for the last byte when an after path follows
Fake_const_loop(io, tdi, tdo, merge, len) ==
    [io EXCEPT !.wire =
        AddRun(@, Cyc(FALSE, tdi, tdo, IF merge /\ len > 0 THEN 8 * len - 1 ELSE 8 * len))]

Fake_bytes(io, before, data, after) ==
    LET io1 == IF IsSome(before) THEN Fake_tms(io, before[1]) ELSE io
        merge == IsSome(after)
        isTx == data.variant \in {"Tx", "TxRx"}
        tdo == data.variant \in {"TxRx", "Rx"}
        tdi == IF data.variant = "ConstantTx" THEN data.bit ELSE TRUE
        io2 == IF isTx THEN Fake_tx_loop(io1, data.tdi, tdo, merge, 1)
               ELSE Fake_const_loop(io1, tdi, tdo, merge, data.len)
        io3 == IF tdo
                 THEN [io2 EXCEPT !.cmd_read_len = @ + data.len,
                                  !.reads = AddSeg(@, io.tag, data.len)]
                 ELSE io2
        last_tdi == IF isTx /\ merge /\ data.len > 0
                      THEN BitAt(data.tdi[data.len], 7) = 1 ELSE TRUE
        last_tdo == IF merge /\ data.len > 0 THEN tdo ELSE FALSE
    IN  Fake_after(io3, after, last_tdi, last_tdo)

\* for _ in 0..len { self.add_bit(tms, data & 1 == 1, false); data >>= 1 }
\* (once data is 0 every iteration that is left adds the same cycle)
Fake_bits_loop(io, data, len) ==
    [io EXCEPT !.wire = AddRuns(@, WordRuns(data, len, FALSE), 1)]

Fake_bits(io, before, data, len, after) ==
    LET io1 == IF IsSome(before) THEN Fake_tms(io, before[1]) ELSE io
        n == IF IsSome(after) THEN SubOne(len, io.checked) ELSE len
    IN  IF n < 0 THEN [io1 EXCEPT !.panicked = TRUE]
        ELSE Fake_after(Fake_bits_loop(io1, data, n), after,
                        LowBit(ShiftR(data, n)), FALSE)

\* FakeBackend::flush
Fake_flush(io) ==
    [io EXCEPT !.buf = BufferExtend(@, io.cmd_read_len, io.reads),
               !.count = Notified(io, io.cmd_read_len),
               !.asked = Max(@, io.cmd_read_len),
               !.cmd_read_len = 0, !.reads = << >>, !.xfers = @ + 1]

(***************************************************************************)
(* ftdi.rs.  The MPSSE engine executes the queued commands in order; what  *)
(* each command clocks is appended to io.wire when it is queued.  Between  *)
(* commands the chip holds TMS and TDI at their last levels.               *)
(***************************************************************************)
MAX_READ_WRITE_LEN == 65536
MAX_CMD_LEN == MAX_READ_WRITE_LEN

\* Device::flush
Ftdi_flush(io) ==
    [io EXCEPT !.buf = BufferExtend(@, io.cmd_read_len, io.reads),
               !.count = Notified(io, io.cmd_read_len),
               !.asked = Max(@, io.cmd_read_len),
               !.cmd_len = 0, !.cmd_read_len = 0, !.reads = << >>,
               !.xfers = @ + 1]

\* Device::maybe_flush
Ftdi_maybe_flush(io) ==
    IF io.cmd_len >= MAX_CMD_LEN \/ io.cmd_read_len >= MAX_READ_WRITE_LEN
      THEN Ftdi_flush(io) ELSE io

\* what the chip clocks for WRITE_TMS|LSB|BITMODE|WRITE_NEG, length byte
\* `lenb`, data byte `byte`: lenb + 1 cycles, TMS from bit 0 upwards, TDI at
\* the level of bit 7
Mpsse_tms(io, lenb, byte, i) ==
    [io EXCEPT !.wire = AddRuns(@, [k \in 1..(lenb + 1 - i) |->
                                      Cyc(BitAt(byte, i + k - 1) = 1,
                                          BitAt(byte, 7) = 1, FALSE, 1)], 1),
               !.tms_level = BitAt(byte, lenb) = 1,
               !.tdi_level = BitAt(byte, 7) = 1]

\* what the chip clocks for a bit-mode data command: lenb + 1 cycles with the
\* bits of `byte` on TDI from bit 0 upwards (TDI keeps its level when the
\* command does not write), TMS at the level it was left at
Mpsse_bits(io, write, read, lenb, byte, i) ==
    [io EXCEPT !.wire = AddRuns(@, [k \in 1..(lenb + 1 - i) |->
                                      Cyc(io.tms_level,
                                          IF write THEN BitAt(byte, i + k - 1) = 1
                                          ELSE io.tdi_level, read, 1)], 1),
               !.tdi_level = IF write /\ i <= lenb THEN BitAt(byte, lenb) = 1 ELSE @]

\* a byte-mode write of the bytes data[i..]
Mpsse_write_bytes(io, read, data, i) ==
    [io EXCEPT !.wire = AddRuns(@, ByteRuns(data, 8 * Len(data), io.tms_level, read),
                                8 * (i - 1) + 1),
               !.tdi_level = IF i <= Len(data) THEN BitAt(data[Len(data)], 7) = 1 ELSE @]

\* a byte-mode command that writes `n` equal bytes (ONES / ZEROES) or, with
\* write FALSE, only reads n bytes
Mpsse_const_bytes(io, write, read, bit, n) ==
    LET tdi == IF write THEN bit ELSE io.tdi_level
    IN  [io EXCEPT !.wire = AddRun(@, Cyc(io.tms_level, tdi, read, 8 * n)),
                   !.tdi_level = IF n > 0 THEN tdi ELSE @]

\* flags = WRITE_TMS | LSB | BITMODE | WRITE_NEG
WRITE_TMS_FLAGS == 75

\* the third byte of the command: tdi | path.as_clocked(), tdi being 0x80 or 0
Ftdi_tms_byte(path, tdi) ==
    LET clocked == as_clocked(path)
    IN  IF tdi /\ BitAt(clocked, 7) = 0 THEN 128 + clocked ELSE clocked

\* the commands tms_internal pushes for one path: a single one of three
\* bytes, whatever the length of the path (path.len - 1 is a u8 subtraction)
Ftdi_tms_commands(path, tdi, checked) ==
    << << WRITE_TMS_FLAGS, SubOne(path.len, checked), Ftdi_tms_byte(path, tdi) >> >>

\* Device::tms_internal
Ftdi_tms_internal(io, path, tdi) ==
    LET byte == Ftdi_tms_commands(path, tdi, io.checked)[1][3]
        lenb == Ftdi_tms_commands(path, tdi, io.checked)[1][2]
    IN  IF lenb < 0 THEN [io EXCEPT !.panicked = TRUE]
        ELSE Ftdi_maybe_flush(
               Mpsse_tms([io EXCEPT !.cmd_len = @ + 3], lenb, byte, 0))

\* Device::tms
Ftdi_tms(io, path) == Ftdi_tms_internal(io, path, TRUE)

\* for chunk in tdi.chunks(MAX_READ_WRITE_LEN) { ... }
RECURSIVE Ftdi_tx_chunks(_, _, _, _)
Ftdi_tx_chunks(io, tdi, read, from) ==
    IF from > Len(tdi) THEN io
    ELSE LET chunk == SubSeq(tdi, from, Min(Len(tdi), from + MAX_READ_WRITE_LEN - 1))
             io1 == IF read
                      THEN [io EXCEPT !.cmd_read_len = @ + Len(chunk),
                                      !.reads = AddSeg(@, io.tag, Len(chunk))]
                      ELSE io
             io2 == [io1 EXCEPT !.cmd_len = @ + 3 + Len(chunk),
                                !.count = Notified(io, Len(chunk))]
         IN  Ftdi_tx_chunks(Ftdi_maybe_flush(Mpsse_write_bytes(io2, read, chunk, 1)),
                            tdi, read, from + Len(chunk))

\* the Tx / TxRx arm of Device::bytes; returns <<io, last_bit>>
Ftdi_tx(io, tdi, read, after) ==
    LET split == IsSome(after) /\ Len(tdi) > 0
        body == IF split THEN SubSeq(tdi, 1, Len(tdi) - 1) ELSE tdi
        io1 == Ftdi_tx_chunks(io, body, read, 1)
        last == tdi[Len(tdi)]
        io2 == [io1 EXCEPT !.cmd_len = @ + 3,
                           !.cmd_read_len = IF read THEN @ + 1 ELSE @,
                           !.reads = IF read THEN AddSeg(@, io.tag, 1) ELSE @,
                           !.count = Notified(io1, 1)]
    IN  IF split
          THEN << Mpsse_bits(io2, TRUE, read, 6, last, 0), BitAt(last, 7) = 1 >>
          ELSE << io1, TRUE >>

\* the Rx arm (write FALSE) and the ConstantTx arm (write TRUE) of
\* Device::bytes: while len != 0 { ... }
RECURSIVE Ftdi_const(_, _, _, _)
Ftdi_const(io, write, bit, len) ==
    IF len = 0 THEN io
    ELSE LET to_add == Min(len, MAX_READ_WRITE_LEN)
             io1 == IF write
                      THEN [io EXCEPT !.cmd_len = @ + 3 + to_add]
                      ELSE [io EXCEPT !.cmd_len = @ + 3,
                                      !.cmd_read_len = @ + to_add,
                                      !.reads = AddSeg(@, io.tag, to_add)]
         IN  Ftdi_const(Ftdi_maybe_flush(Mpsse_const_bytes(io1, write, ~write, bit, to_add)),
                        write, bit, len - to_add)

\* Device::bytes
Ftdi_bytes(io, before, data, after) ==
    LET io1 == IF IsSome(before) THEN Ftdi_tms_internal(io, before[1], TRUE) ELSE io
        tx == Ftdi_tx(io1, data.tdi, data.variant = "TxRx", after)
        io2 == CASE data.variant \in {"Tx", "TxRx"} -> tx[1]
                 [] data.variant = "Rx" -> Ftdi_const(io1, FALSE, TRUE, data.len)
                 [] data.variant = "ConstantTx" -> Ftdi_const(io1, TRUE, data.bit, data.len)
        last_bit == IF data.variant \in {"Tx", "TxRx"} THEN tx[2] ELSE TRUE
        io3 == IF IsSome(after) THEN Ftdi_tms_internal(io2, after[1], last_bit) ELSE io2
    IN  Ftdi_maybe_flush(io3)

\* while len != 0 { ... } of Device::bits
Ftdi_bits_loop(io, data, len) ==
    << [io EXCEPT !.cmd_len = @ + 3 * ((len + 7) \div 8),
                  !.wire = AddRuns(@, WordRuns(data, len, io.tms_level), 1),
                  !.tdi_level = IF len = 0 THEN @ ELSE len <= 32 /\ data[len] = 1],
       ShiftR(data, len) >>

\* Device::bits
Ftdi_bits(io, before, data, len, after) ==
    LET io1 == IF IsSome(before) THEN Ftdi_tms_internal(io, before[1], TRUE) ELSE io
        n == IF IsSome(after) THEN SubOne(len, io.checked) ELSE len
        r == Ftdi_bits_loop(io1, data, n)
        io3 == IF IsSome(after) THEN Ftdi_tms_internal(r[1], after[1], LowBit(r[2])) ELSE r[1]
    IN  IF n < 0 THEN [io1 EXCEPT !.panicked = TRUE] ELSE Ftdi_maybe_flush(io3)

(***************************************************************************)
(* xpc.rs.  Every cycle takes one of the four slots of a pair of bytes of  *)
(* cmd_buf; io.wire holds the slots in order (filler slots have tck        *)
(* FALSE), io.cmd_len is cmd_buf.len().                                    *)
(***************************************************************************)
MAX_BUF_LEN == 8192

\* the pairs of bytes pushed by n calls of add_bit_internal that start at
\* slot position nb: one each time the position is 0
PairsPushed(nb, n) == ((nb + n + 3) \div 4) - ((nb + 3) \div 4)

\* n calls of Device::add_bit_internal with the same arguments
Xpc_add_bits(io, tms, tdi, tdo, tck, n) ==
    [io EXCEPT !.cmd_len = @ + 2 * PairsPushed(io.num_bits, n),
               !.sampled = IF tdo THEN @ + n ELSE @,
               !.wire = AddRun(@, [tms |-> tms, tdi |-> tdi, tdo |-> tdo, tck |-> tck, n |-> n]),
               !.num_bits = (@ + n) % 4]

\* Device::add_bit
Xpc_add_bit(io, tms, tdi, tdo) == Xpc_add_bits(io, tms, tdi, tdo, TRUE, 1)

\* the cycles of rs that have the sample bit set
Sampled(rs) == SumRange([k \in 1..Len(rs) |-> IF rs[k].tdo THEN rs[k].n ELSE 0], 1, Len(rs))

\* the calls of Device::add_bit for the cycles of rs, n cycles in all
Xpc_add_list(io, rs, n) ==
    [io EXCEPT !.cmd_len = @ + 2 * PairsPushed(io.num_bits, n),
               !.sampled = @ + Sampled(rs),
               !.wire = AddRuns(@, rs, 1),
               !.num_bits = (@ + n) % 4]

\* Device::flush
Xpc_flush(io) ==
    LET io1 == IF io.num_bits = 0 THEN Xpc_add_bits(io, FALSE, FALSE, FALSE, FALSE, 1) ELSE io
    IN  [io1 EXCEPT !.buf = IF io.cmd_read_len = 0 THEN @
                             ELSE BufferExtend(@, io.cmd_read_len, io.reads),
                    !.count = IF io.cmd_read_len = 0 THEN @
                               ELSE Notified(io, io.cmd_read_len),
                    !.asked = Max(@, io.cmd_read_len),
                    !.uneven = @ \/ io.sampled # 8 * io.cmd_read_len,
                    !.sampled = 0,
                    !.cmd_len = 0, !.cmd_read_len = 0, !.num_bits = 0,
                    !.reads = << >>, !.xfers = @ + 1]

\* Device::maybe_flush
Xpc_maybe_flush(io) == IF io.cmd_len >= MAX_BUF_LEN THEN Xpc_flush(io) ELSE io

\* for tms in path { self.add_bit(tms, true, false) }
Xpc_path_from(io, path, idx) ==
    Xpc_add_list(io, PathRuns(path, idx, TRUE, FALSE), Max(path.len - idx, 0))

\* Device::tms
Xpc_tms(io, path) == Xpc_maybe_flush(Xpc_path_from(io, path, 0))

\* the `after` block of bytes and bits
Xpc_after(io, after, last_tdi, last_tdo) ==
    IF ~IsSome(after) \/ after[1].len = 0 THEN io
    ELSE Xpc_path_from(Xpc_add_bit(io, PathBit(after[1], 0), last_tdi, last_tdo),
                       after[1], 1)

\* while self.num_bits != 0 { self.add_bit_internal(false, false, false, false) }
Xpc_align(io) == Xpc_add_bits(io, FALSE, FALSE, FALSE, FALSE, (4 - io.num_bits) % 4)

Xpc_byte_bits(io, byte, tdo, k, nbits) ==
    Xpc_add_list(io, ByteRuns(<< byte >>, nbits, FALSE, tdo), nbits)

\* the loop over tdi.iter().enumerate() of the Tx / TxRx arm
RECURSIVE Xpc_tx_loop(_, _, _, _, _)
Xpc_tx_loop(io, tdi, tdo, merge, idx) ==
    IF idx > Len(tdi) THEN io
    ELSE LET io1 == Xpc_byte_bits(io, tdi[idx], tdo, 0,
                                  IF merge /\ idx = Len(tdi) THEN 7 ELSE 8)
             io2 == IF tdo
                      THEN [io1 EXCEPT !.cmd_read_len = @ + 1,
                                       !.reads = AddSeg(@, io.tag, 1),
                                       !.count = Notified(io, 1)]
                      ELSE [io1 EXCEPT !.count = Notified(io, 1)]
         IN  Xpc_tx_loop(Xpc_maybe_flush(io2), tdi, tdo, merge, idx + 1)

\* the loop `for idx in 0..len.0` of the Rx / ConstantTx arm, `done` bytes
\* in.  The bytes up to the next one after which maybe_flush fires (or up to
\* the last one) are taken in one step: each adds two pairs of bytes to
\* cmd_buf and all their cycles are equal.
RECURSIVE Xpc_const_loop(_, _, _, _, _, _)
Xpc_const_loop(io, tdi, tdo, merge, done, len) ==
    IF done >= len THEN io
    ELSE LET room == MAX_BUF_LEN - io.cmd_len
             until == IF room <= 4 THEN 1 ELSE (room + 3) \div 4
             take == Min(len - done, until)
             cycles == IF merge /\ done + take = len THEN 8 * take - 1 ELSE 8 * take
             io1 == Xpc_add_bits(io, FALSE, tdi, tdo, TRUE, cycles)
             io2 == IF tdo
                      THEN [io1 EXCEPT !.cmd_read_len = @ + take,
                                       !.reads = AddSeg(@, io.tag, take)]
                      ELSE io1
         IN  Xpc_const_loop(Xpc_maybe_flush(io2), tdi, tdo, merge, done + take, len)

\* Device::bytes
Xpc_bytes(io, before, data, after) ==
    LET io0 == IF IsSome(before) THEN Xpc_path_from(io, before[1], 0) ELSE io
        io1 == Xpc_align(io0)
        merge == IsSome(after)
        isTx == data.variant \in {"Tx", "TxRx"}
        tdo == data.variant \in {"TxRx", "Rx"}
        tdi == IF data.variant = "ConstantTx" THEN data.bit ELSE TRUE
        io2 == IF isTx THEN Xpc_tx_loop(io1, data.tdi, tdo, merge, 1)
               ELSE Xpc_const_loop(io1, tdi, tdo, merge, 0, data.len)
        last_tdi == IF isTx /\ merge /\ data.len > 0
                      THEN BitAt(data.tdi[data.len], 7) = 1 ELSE TRUE
        last_tdo == IF merge /\ data.len > 0 THEN tdo ELSE FALSE
    IN  Xpc_maybe_flush(Xpc_after(io2, after, last_tdi, last_tdo))

\* for _ in 0..len { self.add_bit(tms, data & 1 == 1, false); data >>= 1 }
Xpc_bits_loop(io, data, len) == Xpc_add_list(io, WordRuns(data, len, FALSE), len)

\* Device::bits
Xpc_bits(io, before, data, len, after) ==
    LET io1 == IF IsSome(before) THEN Xpc_path_from(io, before[1], 0) ELSE io
        n == IF IsSome(after) THEN SubOne(len, io.checked) ELSE len
    IN  IF n < 0 THEN [io1 EXCEPT !.panicked = TRUE]
        ELSE Xpc_maybe_flush(Xpc_after(Xpc_bits_loop(io1, data, n), after,
                                       LowBit(ShiftR(data, n)), FALSE))

(***************************************************************************)
(* backend.rs, trait Backend: the call goes to the cable the Controller    *)
(* owns.  A call on a backend that has panicked does nothing.              *)
(***************************************************************************)
\* A backend call returns a Result.  The transport fails at the call that
\* finds the fuse at 0 (a fuse of -1 never blows); calls counts the calls made.
Issue(b) == [b EXCEPT !.calls = @ + 1, !.fuse = IF @ > 0 THEN @ - 1 ELSE @]

Fail(b) == [b EXCEPT !.calls = @ + 1, !.failed = TRUE]

\* backend.tms(buf, path).await?  (the `?` of the call before it returned
\* from the caller if that call failed)
Backend_tms(io, path) ==
    Bind(io, LAMBDA b :
      IF b.panicked \/ b.failed THEN b
      ELSE IF b.fuse = 0 THEN Fail(b)
      ELSE CASE b.kind = "fake" -> Fake_tms(Issue(b), path)
             [] b.kind = "ftdi" -> Ftdi_tms(Issue(b), path)
             [] b.kind = "xpc" -> Xpc_tms(Issue(b), path))

Backend_bytes(io, before, data, after) ==
    Bind(io, LAMBDA b :
      IF b.panicked \/ b.failed THEN b
      ELSE IF b.fuse = 0 THEN Fail(b)
      ELSE CASE b.kind = "fake" -> Fake_bytes(Issue(b), before, data, after)
             [] b.kind = "ftdi" -> Ftdi_bytes(Issue(b), before, data, after)
             [] b.kind = "xpc" -> Xpc_bytes(Issue(b), before, data, after))

Backend_bits(io, before, data, len, after) ==
    Bind(io, LAMBDA b :
      IF b.panicked \/ b.failed THEN b
      ELSE IF b.fuse = 0 THEN Fail(b)
      ELSE CASE b.kind = "fake" -> Fake_bits(Issue(b), before, data, len, after)
             [] b.kind = "ftdi" -> Ftdi_bits(Issue(b), before, data, len, after)
             [] b.kind = "xpc" -> Xpc_bits(Issue(b), before, data, len, after))

\* a flush that is made whatever the call before it returned
Backend_flush_unchecked(io) ==
    Bind(io, LAMBDA b :
      IF b.panicked THEN b
      ELSE IF b.fuse = 0 THEN Fail(b)
      ELSE CASE b.kind = "fake" -> Fake_flush(Issue(b))
             [] b.kind = "ftdi" -> Ftdi_flush(Issue(b))
             [] b.kind = "xpc" -> Xpc_flush(Issue(b)))

Backend_flush(io) ==
    Bind(io, LAMBDA b :
      IF b.panicked \/ b.failed THEN b
      ELSE IF b.fuse = 0 THEN Fail(b)
      ELSE CASE b.kind = "fake" -> Fake_flush(Issue(b))
             [] b.kind = "ftdi" -> Ftdi_flush(Issue(b))
             [] b.kind = "xpc" -> Xpc_flush(Issue(b)))

(***************************************************************************)
(* controller.rs: commands, io_bits, io_bytes.                             *)
(***************************************************************************)
\* Command::ir, dr_tx, dr_rx, dr_txrx, idle (CommandInner)
CmdIr(v) == [op |-> "IrTxBits", val |-> v, tdi |-> << >>, len |-> 0, notify |-> FALSE]
CmdDrTx(tdi) == [op |-> "DrTx", val |-> 0, tdi |-> tdi, len |-> Len(tdi), notify |-> FALSE]
CmdDrRx(len) == [op |-> "DrRx", val |-> 0, tdi |-> << >>, len |-> len, notify |-> FALSE]
CmdDrTxRx(tdi) == [op |-> "DrTxRx", val |-> 0, tdi |-> tdi, len |-> Len(tdi), notify |-> FALSE]
CmdIdle(len) == [op |-> "Idle", val |-> 0, tdi |-> << >>, len |-> len, notify |-> FALSE]

\* Command::dr_tx_with_notification, dr_rx_with_notification,
\* dr_txrx_with_notification
CmdDrTxNotify(tdi) == [CmdDrTx(tdi) EXCEPT !.notify = TRUE]
CmdDrRxNotify(len) == [CmdDrRx(len) EXCEPT !.notify = TRUE]
CmdDrTxRxNotify(tdi) == [CmdDrTxRx(tdi) EXCEPT !.notify = TRUE]

Sum(q, i) == SumRange(q, i, Len(q))

\* before.iter().map(|i| i.irlen.0).sum() into a u8: -1 stands for the
\* overflow panic of a build that checks, a build that does not wraps
SumU8(irlens, i, acc, checked) ==
    LET total == acc + Sum(irlens, i)
    IN  IF total > 255 THEN (IF checked THEN -1 ELSE total % 256) ELSE total

\* an io_bits that shifts one bit more than the IR of the target holds
io_bits_one_more_bit(io, irlen, irlen_before, irlen_after, tdi) ==
    LET ir0 == Some(PATHS["RunTestIdle"]["ShiftIR"])
        ir1 == Some(PATHS["ShiftIR"]["RunTestIdle"])
    IN  Backend_bits(
          Backend_bits(Backend_bits(io, ir0, U32MAX, irlen_before, None),
                       None, tdi, irlen + 1, None),
          None, U32MAX, irlen_after, ir1)

\* io_bits
io_bits(io, irlen, irlen_before, irlen_after, tdi) ==
    LET ir0 == Some(PATHS["RunTestIdle"]["ShiftIR"])
        ir1 == Some(PATHS["ShiftIR"]["RunTestIdle"])
    IN  CASE irlen_before = 0 /\ irlen_after = 0 ->
               Backend_bits(io, ir0, tdi, irlen, ir1)
          [] irlen_before # 0 /\ irlen_after = 0 ->
               Backend_bits(Backend_bits(io, ir0, U32MAX, irlen_before, None),
                            None, tdi, irlen, ir1)
          [] irlen_before = 0 /\ irlen_after # 0 ->
               Backend_bits(Backend_bits(io, ir0, tdi, irlen, None),
                            None, U32MAX, irlen_after, ir1)
          [] OTHER ->
               Backend_bits(
                 Backend_bits(Backend_bits(io, ir0, U32MAX, irlen_before, None),
                              None, tdi, irlen, None),
                 None, U32MAX, irlen_after, ir1)

\* io_bytes
io_bytes(io, devices_before, devices_after, data) ==
    LET dr0 == Some(PATHS["RunTestIdle"]["ShiftDR"])
        dr1 == Some(PATHS["ShiftDR"]["RunTestIdle"])
    IN  CASE devices_before = 0 /\ devices_after = 0 ->
               Backend_bytes(io, dr0, data, dr1)
          [] devices_before # 0 /\ devices_after = 0 ->
               Backend_bytes(Backend_bits(io, dr0, U32MAX, devices_before, None),
                             None, data, dr1)
          [] devices_before = 0 /\ devices_after # 0 ->
               Backend_bits(Backend_bytes(io, dr0, data, None),
                            None, U32MAX, devices_after, dr1)
          [] OTHER ->
               Backend_bits(
                 Backend_bytes(Backend_bits(io, dr0, U32MAX, devices_before, None),
                               None, data, None),
                 None, U32MAX, devices_after, dr1)

\* the match on command.inner in Controller::run
run_command(io, c, irlen, loc) ==
    CASE c.op = "IrTxBits" ->
           io_bits(io, irlen, loc.irlen_before, loc.irlen_after, U32(c.val))
      [] c.op = "DrTx" ->
           io_bytes(io, loc.devices_before, loc.devices_after, DataTx(c.tdi))
      [] c.op = "DrRx" ->
           io_bytes(io, loc.devices_before, loc.devices_after, DataRx(c.len))
      [] c.op = "DrTxRx" ->
           io_bytes(io, loc.devices_before, loc.devices_after, DataTxRx(c.tdi))
      [] c.op = "Idle" ->
           Backend_bytes(io, None, DataConstantTx(TRUE, c.len), None)

\* a close of run() that stays in Run-Test-Idle
run_close_stays_idle(io) == Backend_flush(Backend_tms(io, MkPath(0, 1)))

\* the close of Controller::run: backend.tms(buf, Path::IDLE); backend.flush(buf)
run_close(io) == Backend_flush(Backend_tms(io, PathIDLE))

\* a Controller::new that stops in Test-Logic-Reset
new_calls_no_idle(io) ==
    [Backend_flush(Backend_tms(io, PathRESET)) EXCEPT !.buf = << >>]

\* a Controller::new that opens as detect_chain does, with two RESET paths
new_calls_resets_twice(io) ==
    [Backend_flush(Backend_tms(Backend_tms(Backend_tms(io, PathRESET), PathRESET),
                               PATHS["TestLogicReset"]["RunTestIdle"]))
       EXCEPT !.buf = << >>]

\* the calls of Controller::new: RESET, Test-Logic-Reset to Run-Test-Idle,
\* flush, buf.clear()
new_calls(io) ==
    [Backend_flush(Backend_tms(Backend_tms(io, PathRESET),
                               PATHS["TestLogicReset"]["RunTestIdle"]))
       EXCEPT !.buf = << >>]

VARIABLES ps, pt, pkind, ppath, pcur, pidx
VARIABLES chain, pc, ncmd, loc, io, tap, last, expect
VARIABLES dev, ret, rounds, res
VARIABLES notify, frames, live, due
VARIABLES call, arg, out

pathVars == << ps, pt, pkind, ppath, pcur, pidx >>
ctlVars == << chain, pc, ncmd, loc, io, tap, last, expect >>
detVars == << dev, ret, rounds, res >>
scopeVars == << notify, frames, live >>
notVars == << scopeVars, due >>
funVars == << call, arg, out >>
vars == << pathVars, ctlVars, detVars, notVars, funVars >>

\* the variables of the specifications that are not running keep these values
ParkedPaths ==
    /\ ps = "TestLogicReset" /\ pt = "TestLogicReset" /\ pkind = "parked"
    /\ ppath = MkPath(0, 0) /\ pcur = "TestLogicReset" /\ pidx = 0

NoLocals == [irlen_before |-> 0, irlen_after |-> 0, devices_before |-> 0, devices_after |-> 0]

ParkedCtl ==
    /\ chain = [before |-> << >>, irlen |-> 0, after |-> << >>]
    /\ pc = "parked" /\ ncmd = 0 /\ loc = NoLocals
    /\ io = NewIo("none", FALSE) /\ tap = "TestLogicReset"
    /\ last = CmdIdle(0) /\ expect = << >>

NoResult == [kind |-> "none"]

ParkedDet ==
    /\ dev = [words |-> << >>, woken |-> << >>, awake |-> FALSE]
    /\ ret = << >> /\ rounds = 0 /\ res = NoResult

\* Ptr(std::ptr::null()); a counter is named by a positive number
NULL == 0

\* Controller.notify is null, no with_notifications call is open, no counter
\* is borrowed, no notification is due
ParkedNot == notify = NULL /\ frames = << >> /\ live = {} /\ due = 0

\* no function of the bitstream and command-line code has been called
ParkedFun == call = "none" /\ arg = << >> /\ out = << >>

(***************************************************************************)
(* SpecPaths: look a path up for a pair of states (or take one of the two  *)
(* universal paths from any state) and clock it bit by bit, as             *)
(* tests::follow_path does.  ps is the state the TAP starts in, pt the     *)
(* state the path is meant to reach, pcur the state after pidx bits.       *)
(***************************************************************************)
InitPaths ==
    /\ ps \in State
    /\ pt \in State
    /\ pkind = "none"
    /\ ppath = MkPath(0, 0)
    /\ pcur = ps
    /\ pidx = 0
    /\ ParkedCtl
    /\ ParkedDet
    /\ ParkedNot
    /\ ParkedFun

\* let path = PATHS[*start][*end];
Lookup ==
    /\ pkind = "none"
    /\ pkind' = "table"
    /\ ppath' = PATHS[ps][pt]
    /\ UNCHANGED << ps, pt, pcur, pidx >>
    /\ UNCHANGED << ctlVars, detVars, notVars, funVars >>

\* Path::RESET: "Transition to TLR, from any state"
TakeReset ==
    /\ pkind = "none"
    /\ pkind' = "reset"
    /\ ppath' = PathRESET
    /\ pt' = "TestLogicReset"
    /\ UNCHANGED << ps, pcur, pidx >>
    /\ UNCHANGED << ctlVars, detVars, notVars, funVars >>

\* Path::IDLE: "Transition to RTI, from any state"
TakeIdle ==
    /\ pkind = "none"
    /\ pkind' = "idle"
    /\ ppath' = PathIDLE
    /\ pt' = "RunTestIdle"
    /\ UNCHANGED << ps, pcur, pidx >>
    /\ UNCHANGED << ctlVars, detVars, notVars, funVars >>

\* one iteration of `for dir in path { cur = GRAPH[cur][dir] }`
Clock ==
    /\ pkind # "none"
    /\ pidx < ppath.len
    /\ pcur' = GRAPH(pcur, PathBit(ppath, pidx))
    /\ pidx' = pidx + 1
    /\ UNCHANGED << ps, pt, pkind, ppath >>
    /\ UNCHANGED << ctlVars, detVars, notVars, funVars >>

NextPaths == Lookup \/ TakeReset \/ TakeIdle \/ Clock

SpecPaths == InitPaths /\ [][NextPaths]_vars

\* the path has been clocked to its last bit
Followed == pkind # "none" /\ pidx = ppath.len

\* C2: for every ordered pair (s, t) of TAP states, clocking the bits of
\* PATHS[s][t] in iteration order through the edges, starting from s, ends
\* exactly in t (also when s = t).
C2_PathLandsOnTarget ==
    (pkind = "table" /\ Followed) => pcur = pt

C2_Witness ==
    /\ pkind = "table" /\ Followed
    /\ ps = "ShiftDR" /\ pt = "Exit2IR" /\ pcur = "Exit2IR" /\ pidx = 8

\* C3: every entry of PATHS has between 1 and 8 bits, also on the diagonal,
\* and fits its 8-bit storage: no bit was shifted out while it was built.
C3_PathLenBounds ==
    pkind = "table" =>
        /\ ppath.len >= 1
        /\ ppath.len <= 8
        /\ ppath.path < Pow2(ppath.len)

C3_Witness ==
    /\ pkind = "table" /\ ps = pt /\ ps = "CaptureDR"
    /\ ppath.len = 4 /\ Followed /\ pcur = ps

\* the TMS sequences of l bits, most significant bit clocked first, that lead
\* from s to t: as numbers they are ordered as the sequences are with TMS=0
\* before TMS=1
Reaching(s, t, l) ==
    { v \in 0..(Pow2(l) - 1) : follow_path(s, MkPath(v, l)) = t }

\* C22: PATHS[s][t] is a shortest non-empty TMS sequence from s to t, and
\* among the sequences of its length that reach t it is the first in the
\* order where TMS=0 comes before TMS=1 at each step.
C22_ShortestAndLeast ==
    pkind = "table" =>
        /\ ppath.len >= 1
        /\ ppath.path \in Reaching(ps, pt, ppath.len)
        /\ \A l \in 1..(ppath.len - 1) : Reaching(ps, pt, l) = {}
        /\ \A v \in Reaching(ps, pt, ppath.len) : ppath.path <= v

\* two sequences of the shortest length reach the target, and the table
\* holds the one that starts with TMS=0
C22_Witness ==
    /\ pkind = "table" /\ Followed /\ pcur = pt
    /\ Cardinality(Reaching(ps, pt, ppath.len)) > 1
    /\ ~ PathBit(ppath, 0)

\* C4: Path::RESET clocked from any of the 16 states ends in Test-Logic-Reset
\* and Path::IDLE clocked from any of the 16 states ends in Run-Test-Idle.
C4_ResetAndIdleUniversal ==
    /\ (pkind = "reset" /\ Followed) => pcur = "TestLogicReset"
    /\ (pkind = "idle" /\ Followed) => pcur = "RunTestIdle"

C4_Witness ==
    /\ pkind = "idle" /\ Followed
    /\ ps = "ShiftIR" /\ pcur = "RunTestIdle" /\ pidx = 6

(***************************************************************************)
(* Spec: a Controller on one of the three cables, with a chain around its  *)
(* target, runs batches of commands.  pc is "new" before Controller::new,  *)
(* "ready" between two calls of run(), "run" inside run() before the first *)
(* command and between two commands, "panicked" after a panic.  io.wire is *)
(* the window of cycles of the step just taken and tap the TAP state       *)
(* obtained by replaying every cycle handed to the cable so far.           *)
(***************************************************************************)
MaxCmds == 2
MaxBytes == 2
MaxDevices == 32

\* n devices of IR length l
Rep(n, l) == [i \in 1..n |-> l]

Chain(before, irlen, after) == [before |-> before, irlen |-> irlen, after |-> after]

\* the chains tried: IR lengths as in the device table
Chains ==
    { Chain(<< >>, 6, << >>),
      Chain(<< 6 >>, 6, << >>),
      Chain(<< >>, 12, << 12 >>),
      Chain(<< 6 >>, 6, << 12 >>),
      Chain(<< 18, 18 >>, 6, << 6 >>),
      Chain(<< 6 >>, 6, << 18, 18 >>),
      Chain(Rep(MaxDevices, 6), 6, Rep(MaxDevices, 6)),
      Chain(Rep(MaxDevices, 8), 6, << >>),
      Chain(<< >>, 6, Rep(MaxDevices, 12)) }

\* a slice of n bytes: 0xA5, 0x5A, 0xA5, ...
Payload(n) == [i \in 1..n |-> IF i % 2 = 1 THEN 165 ELSE 90]

IrValues == { 9, 50 }

Commands ==
    { CmdIr(v) : v \in IrValues }
      \cup { CmdDrTx(Payload(n)) : n \in 0..MaxBytes }
      \cup { CmdDrRx(n) : n \in 0..MaxBytes }
      \cup { CmdDrTxRx(Payload(n)) : n \in 0..MaxBytes }
      \cup { CmdIdle(n) : n \in 1..MaxBytes }

\* the bytes a command asks to read
RxLen(c) == IF c.op \in {"DrRx", "DrTxRx"} THEN c.len ELSE 0

\* a step starts a new window of cycles
OpenWindow(x) == [x EXCEPT !.wire = << >>, !.asked = 0, !.uneven = FALSE]

InitCtl(chains) ==
    /\ chain \in chains
    /\ pc = "new"
    /\ ncmd = 0
    /\ loc = NoLocals
    /\ \E k \in {"fake", "ftdi", "xpc"}, checked \in BOOLEAN : io = NewIo(k, checked)
    /\ tap \in State
    /\ last = CmdIdle(0)
    /\ expect = << >>
    /\ ParkedPaths
    /\ ParkedDet
    /\ ParkedNot
    /\ ParkedFun

\* Controller::new
New ==
    /\ pc = "new"
    /\ io' = new_calls(OpenWindow(io))
    /\ tap' = Replay(tap, io'.wire, 1)
    /\ pc' = IF io'.failed THEN "new_err" ELSE "ready"
    /\ UNCHANGED << chain, ncmd, loc, last, expect, pathVars, detVars, notVars, funVars >>

\* `unsafe { &*notify.0 }` at the head of run(): a pointer to a counter
\* whose borrow has ended is dangling, and the build may crash on it or go on
Deref(ptr, alive) == IF ptr = NULL \/ ptr \in alive THEN { "ok" } ELSE { "ok", "crash" }

\* a run() that does not clear the buffer
RunBegin_keeps_buf ==
    /\ pc = "ready"
    /\ LET irlen_before == SumU8(chain.before, 1, 0, io.checked)
           irlen_after == SumU8(chain.after, 1, 0, io.checked)
           ok == /\ irlen_before >= 0 /\ irlen_after >= 0
                 /\ Len(chain.before) <= MaxDevices /\ Len(chain.after) <= MaxDevices
       IN  /\ io' = [OpenWindow(io) EXCEPT !.xfers = 0, !.tag = 0, !.calls = 0, !.count = 0,
                                           !.panicked = ~ok]
           /\ \E outcome \in Deref(notify, live) :
                pc' = IF outcome = "crash" THEN "crashed"
                      ELSE IF ok THEN "run" ELSE "panicked"
           /\ loc' = IF ok
                       THEN [irlen_before |-> irlen_before, irlen_after |-> irlen_after,
                             devices_before |-> Len(chain.before),
                             devices_after |-> Len(chain.after)]
                       ELSE NoLocals
    /\ ncmd' = 0
    /\ last' = CmdIdle(0)
    /\ expect' = << >>
    /\ due' = 0
    /\ UNCHANGED << chain, tap, pathVars, detVars, scopeVars, funVars >>

\* Controller::run up to the loop over the commands: the read of
\* self.notify, buf.clear(), the two
\* sums of IR lengths, the two assertions on the number of devices
RunBegin ==
    /\ pc = "ready"
    /\ LET irlen_before == SumU8(chain.before, 1, 0, io.checked)
           irlen_after == SumU8(chain.after, 1, 0, io.checked)
           ok == /\ irlen_before >= 0 /\ irlen_after >= 0
                 /\ Len(chain.before) <= MaxDevices /\ Len(chain.after) <= MaxDevices
       IN  /\ io' = [OpenWindow(io) EXCEPT !.buf = << >>, !.xfers = 0, !.tag = 0,
                                           !.calls = 0, !.count = 0, !.panicked = ~ok]
           /\ \E outcome \in Deref(notify, live) :
                pc' = IF outcome = "crash" THEN "crashed"
                      ELSE IF ok THEN "run" ELSE "panicked"
           /\ loc' = IF ok
                       THEN [irlen_before |-> irlen_before, irlen_after |-> irlen_after,
                             devices_before |-> Len(chain.before),
                             devices_after |-> Len(chain.after)]
                       ELSE NoLocals
    /\ ncmd' = 0
    /\ last' = CmdIdle(0)
    /\ expect' = << >>
    /\ due' = 0
    /\ UNCHANGED << chain, tap, pathVars, detVars, scopeVars, funVars >>

\* one iteration of `for command in commands`
RunCommand(c) ==
    /\ pc = "run"
    /\ ncmd < MaxCmds
    /\ io' = run_command([OpenWindow(io) EXCEPT !.tag = ncmd + 1,
                                                !.noisy = notify # NULL /\ c.notify],
                          c, chain.irlen, loc)
    /\ tap' = Replay(tap, io'.wire, 1)
    /\ pc' = IF io'.panicked THEN "panicked" ELSE IF io'.failed THEN "run_err" ELSE "run"
    /\ ncmd' = ncmd + 1
    /\ last' = c
    /\ expect' = AddSeg(expect, ncmd + 1, RxLen(c))
    /\ due' = due + (IF c.notify THEN c.len ELSE 0)
    /\ UNCHANGED << chain, loc, pathVars, detVars, scopeVars, funVars >>

\* the end of Controller::run: Path::IDLE, flush, Ok(&self.buf) or the error
RunEnd ==
    /\ pc = "run"
    /\ io' = run_close([OpenWindow(io) EXCEPT !.noisy = notify # NULL /\ last.notify])
    /\ tap' = Replay(tap, io'.wire, 1)
    /\ pc' = IF io'.failed THEN "run_err" ELSE "ready"
    /\ UNCHANGED << chain, ncmd, loc, last, expect, pathVars, detVars, notVars, funVars >>

Init == InitCtl(Chains)

Next == New \/ RunBegin \/ (\E c \in Commands : RunCommand(c)) \/ RunEnd

Spec == Init /\ [][Next]_vars

\* C1: from any initial TAP state, after Controller::new and after any
\* sequence of successful run() calls, the TAP state obtained by replaying
\* every TMS bit handed to the backend is Run-Test-Idle at the start and at
\* the end of every run() and between any two commands inside a run().
C1_IdleBetweenCommands ==
    pc \in {"ready", "run"} => tap = "RunTestIdle"

C1_Witness ==
    /\ pc = "run" /\ ncmd = 2 /\ last.op = "DrTxRx" /\ last.len = 2
    /\ io.kind = "ftdi" /\ Len(chain.before) = 32 /\ tap = "RunTestIdle"

(***************************************************************************)
(* The cycles of a window that are clocked while the TAP is in one state.  *)
(***************************************************************************)
\* how many of the `left` cycles of a run with TMS at level tms are clocked
\* in state `target`, the TAP in s before them
RECURSIVE CountIn(_, _, _, _)
CountIn(s, tms, left, target) ==
    IF left = 0 THEN 0
    ELSE IF GRAPH(s, tms) = s THEN (IF s = target THEN left ELSE 0)
    ELSE (IF s = target THEN 1 ELSE 0) + CountIn(GRAPH(s, tms), tms, left - 1, target)

\* the cycles of w clocked in state `target`, the TAP in s before w
CyclesIn(s, w, target) ==
    Pack([k \in 1..Len(w) |->
            [w[k] EXCEPT !.n = IF w[k].tck
                                 THEN CountIn(TapMap(w, 1, k - 1)[s], w[k].tms, @, target)
                                 ELSE 0]],
         1, Len(w))

\* the cycles a command clocks in `target`; a command starts in Run-Test-Idle
ShiftCycles(w, target) == CyclesIn("RunTestIdle", w, target)


\* the same cycles without the TDO flag
NoTdo(w) == Pack([k \in 1..Len(w) |-> [w[k] EXCEPT !.tdo = FALSE]], 1, Len(w))

\* a non-empty sequence of cycles with TMS raised on its last cycle
WithExit(w) ==
    LET k == Len(w)
    IN  AddRun(AddRun(SubSeq(w, 1, k - 1), [w[k] EXCEPT !.n = @ - 1]),
               [w[k] EXCEPT !.tms = TRUE, !.n = 1])

\* the bits d[1..n] on TDI, one cycle each, TMS low
BitCycles(acc, d, i, n, tdo) ==
    AddRuns(acc, [k \in 1..(n - i + 1) |-> Cyc(FALSE, d[i + k - 1] = 1, tdo, 1)], 1)

\* the bytes data[i..] on TDI, least significant bit first, TMS low
ByteCycles(acc, data, i, tdo) ==
    AddRuns(acc, [k \in 1..(8 * (Len(data) - i + 1)) |->
                    Cyc(FALSE, BitAt(data[i + ((k - 1) \div 8)], (k - 1) % 8) = 1, tdo, 1)], 1)


\* b ones, the irlen low bits of V, a ones, TMS high on the last cycle only
IrGeometry(b, irlen, a, V) ==
    WithExit(AddRun(BitCycles(AddRun(<< >>, Cyc(FALSE, TRUE, FALSE, b)), U32(V), 1, irlen, FALSE),
                    Cyc(FALSE, TRUE, FALSE, a)))

\* C7: for every chain of up to 32 devices before and up to 32 after the
\* target and every IR command with value V, the cycles clocked in Shift-IR
\* are b ones on TDI, then the irlen low bits of V least significant first,
\* then a ones, b and a the sums of the IR lengths before and after, every
\* pad bit 1 also when b or a exceeds 32, TMS high on the last cycle only.
C7_IrShiftGeometry ==
    (pc = "run" /\ ncmd >= 1 /\ last.op = "IrTxBits") =>
        NoTdo(ShiftCycles(io.wire, "ShiftIR"))
          = IrGeometry(Sum(chain.before, 1), chain.irlen, Sum(chain.after, 1), last.val)

\* B ones, the 8n payload cycles (TDO sampled when the command reads, TDI
\* the payload bits or, for a read alone, high), A ones, TMS high on the last
DrGeometry(B, c, A) ==
    LET reads == c.op \in {"DrRx", "DrTxRx"}
        pre == AddRun(<< >>, Cyc(FALSE, TRUE, FALSE, B))
        mid == IF c.op = "DrRx" THEN AddRun(pre, Cyc(FALSE, TRUE, TRUE, 8 * c.len))
               ELSE ByteCycles(pre, c.tdi, 1, reads)
    IN  WithExit(AddRun(mid, Cyc(FALSE, TRUE, FALSE, A)))

\* C8: on the mock backend, for B devices before and A after the target
\* (0 <= A, B <= 32) and every DR command of n >= 1 bytes, the cycles clocked
\* in Shift-DR are B ones on TDI, the 8n payload cycles, A ones: B + 8n + A
\* cycles, TMS high on the last only, TDO sampled on payload cycles only (on
\* all 8n of them when the command reads), the same for Tx, Rx and TxRx.
C8_MockDrGeometry ==
    (pc = "run" /\ ncmd >= 1 /\ io.kind = "fake"
       /\ last.op \in {"DrTx", "DrRx", "DrTxRx"} /\ last.len >= 1) =>
        ShiftCycles(io.wire, "ShiftDR")
          = DrGeometry(Len(chain.before), last, Len(chain.after))

C8_Witness ==
    /\ pc = "run" /\ ncmd = 2 /\ io.kind = "fake"
    /\ last.op = "DrRx" /\ last.len = 2
    /\ Len(chain.before) = MaxDevices /\ Len(chain.after) = MaxDevices
    /\ Len(ShiftCycles(io.wire, "ShiftDR")) = 4

(***************************************************************************)
(* SpecBackend: the operations of trait Backend called directly on one of  *)
(* the three cables: a tms() that takes the TAP to Run-Test-Idle or to a    *)
(* shift state, then one bytes() or bits() (with a path into Shift-DR when *)
(* the TAP is in Run-Test-Idle, with or without a path out of the shift    *)
(* state), then flush().  io.wire is the window of cycles of the last      *)
(* call, last the call.                                                    *)
(***************************************************************************)
\* the path in: present exactly when the TAP is not yet in a shift state
BeforePaths(s) ==
    IF s = "RunTestIdle" THEN { Some(PATHS["RunTestIdle"]["ShiftDR"]) } ELSE { None }

\* the shift state the data is clocked in
ShiftState(s) == IF s = "RunTestIdle" THEN "ShiftDR" ELSE s

\* the path out: none, or one that leaves the shift state
AfterPaths(s) ==
    { None, Some(PATHS[ShiftState(s)]["RunTestIdle"]),
      Some(PATHS[ShiftState(s)][IF ShiftState(s) = "ShiftDR" THEN "PauseDR" ELSE "PauseIR"]) }

FirstPaths ==
    { PathIDLE, PATHS["TestLogicReset"]["RunTestIdle"],
      PATHS["TestLogicReset"]["ShiftDR"], PATHS["TestLogicReset"]["ShiftIR"] }

DataSet ==
    UNION { { DataTx(Payload(n)), DataTxRx(Payload(n)), DataRx(n),
              DataConstantTx(TRUE, n), DataConstantTx(FALSE, n) } : n \in 0..MaxBytes }

BitLens == { 0, 1, 6, 40 }

CallTmsOf(path) == [op |-> "tms", path |-> path]
CallBytesOf(before, data, after) ==
    [op |-> "bytes", before |-> before, data |-> data, after |-> after]
CallBitsOf(before, data, len, after) ==
    [op |-> "bits", before |-> before, data |-> data, len |-> len, after |-> after]

InitBackend ==
    /\ chain = [before |-> << >>, irlen |-> 0, after |-> << >>]
    /\ pc = "start"
    /\ ncmd = 0
    /\ loc = NoLocals
    /\ \E k \in {"fake", "ftdi", "xpc"}, checked \in BOOLEAN : io = NewIo(k, checked)
    /\ tap = "TestLogicReset"
    /\ last = [op |-> "none"]
    /\ expect = << >>
    /\ ParkedPaths
    /\ ParkedDet
    /\ ParkedNot
    /\ ParkedFun

\* Backend::tms
CallTms(path) ==
    /\ pc = "start"
    /\ io' = Backend_tms(OpenWindow(io), path)
    /\ last' = CallTmsOf(path)
    /\ pc' = "moved"
    /\ tap' = Replay(tap, io'.wire, 1)
    /\ UNCHANGED << chain, ncmd, loc, expect, pathVars, detVars, notVars, funVars >>

\* Backend::bytes
CallBytes(before, data, after) ==
    /\ pc = "moved"
    /\ io' = Backend_bytes([OpenWindow(io) EXCEPT !.tag = 1], before, data, after)
    /\ last' = CallBytesOf(before, data, after)
    /\ pc' = IF io'.panicked THEN "panicked" ELSE "called"
    /\ tap' = Replay(tap, io'.wire, 1)
    /\ UNCHANGED << chain, ncmd, loc, expect, pathVars, detVars, notVars, funVars >>

\* Backend::bits
CallBits(before, data, len, after) ==
    /\ pc = "moved"
    /\ io' = Backend_bits([OpenWindow(io) EXCEPT !.tag = 1], before, data, len, after)
    /\ last' = CallBitsOf(before, data, len, after)
    /\ pc' = IF io'.panicked THEN "panicked" ELSE "called"
    /\ tap' = Replay(tap, io'.wire, 1)
    /\ UNCHANGED << chain, ncmd, loc, expect, pathVars, detVars, notVars, funVars >>

\* Backend::flush
CallFlush ==
    /\ pc = "called"
    /\ io' = Backend_flush(OpenWindow(io))
    /\ pc' = "flushed"
    /\ UNCHANGED << chain, ncmd, loc, tap, last, expect, pathVars, detVars, notVars, funVars >>

NextBackend ==
    \/ \E path \in FirstPaths : CallTms(path)
    \/ \E before \in BeforePaths(tap), data \in DataSet, after \in AfterPaths(tap) :
         CallBytes(before, data, after)
    \/ \E before \in BeforePaths(tap), data \in {U32MAX, U32(9)}, len \in BitLens,
          after \in AfterPaths(tap) : CallBits(before, data, len, after)
    \/ CallFlush

SpecBackend == InitBackend /\ [][NextBackend]_vars

\* the TMS levels of the clocked cycles of a window

TmsOnly(w) ==
    Pack([k \in 1..Len(w) |-> Cyc(w[k].tms, TRUE, FALSE, IF w[k].tck THEN w[k].n ELSE 0)],
         1, Len(w))

\* the TMS levels of a path, bit 0 first
PathTms(acc, path, idx) ==
    AddRuns(acc, [k \in 1..(path.len - idx) |->
                    Cyc(PathBit(path, idx + k - 1), TRUE, FALSE, 1)], 1)

OptPathTms(acc, o) == IF IsSome(o) THEN PathTms(acc, o[1], 0) ELSE acc

\* C9: for each backend and each Data variant of n >= 1 bytes passed to
\* bytes() with an after path, the payload takes exactly 8n cycles: TMS is
\* low on the first 8n - 1 of them and the 8n-th is the cycle of the first
\* TMS bit of the after path, with no further cycle between the payload and
\* the exit.
C9_LastBitOnExit ==
    (pc = "called" /\ last.op = "bytes" /\ IsSome(last.after) /\ last.data.len >= 1) =>
        TmsOnly(io.wire)
          = OptPathTms(AddRun(OptPathTms(<< >>, last.before),
                              Cyc(FALSE, TRUE, FALSE, 8 * last.data.len - 1)),
                       last.after)

(***************************************************************************)
(* SpecBuf: the Controller of Spec with batches whose reads and writes     *)
(* reach the sizes at which the FTDI and XPC cables transfer on their own  *)
(* in the middle of a batch.                                               *)
(***************************************************************************)
BufChains ==
    { Chain(<< >>, 6, << >>), Chain(<< 6 >>, 6, << 12 >>) }

\* the bytes of payload after which the cable transfers on its own: the FTDI
\* cable at MAX_READ_WRITE_LEN bytes to read or to send, the XPC cable at
\* MAX_BUF_LEN bytes of cmd_buf, four for each byte of payload (the mock
\* never does)
FlushAt(kind) == IF kind = "xpc" THEN MAX_BUF_LEN \div 4 ELSE MAX_READ_WRITE_LEN

BufCmds(kind) ==
    { CmdDrRx(n) : n \in { 1, FlushAt(kind) - 1, FlushAt(kind), FlushAt(kind) + 1,
                           2 * FlushAt(kind) + 1 } }
      \cup { CmdDrTxRx(Payload(n)) : n \in 1..MaxBytes }
      \cup { CmdDrTx(Payload(1)), CmdIr(9), CmdIdle(FlushAt(kind)) }

InitBuf == InitCtl(BufChains)

NextBuf == New \/ RunBegin \/ (\E c \in BufCmds(io.kind) : RunCommand(c)) \/ RunEnd

SpecBuf == InitBuf /\ [][NextBuf]_vars

\* C5: after any sequence of successful run() calls the slice the latest
\* run() returns has length L, the sum of len over its dr_rx commands plus
\* the payload lengths of its dr_txrx commands, whatever the earlier batches
\* were and whatever transfers the backend made in the middle of the batch.
C5_ReturnedLength ==
    pc = "ready" => SegBytes(io.buf, 1) = SegBytes(expect, 1)

C5_Witness ==
    /\ pc = "ready" /\ ncmd = 2 /\ io.kind = "ftdi" /\ io.xfers >= 2
    /\ last.op = "DrRx" /\ last.len = MAX_READ_WRITE_LEN - 1
    /\ SegBytes(io.buf, 1) = MAX_READ_WRITE_LEN + 1 /\ Len(io.buf) = 2

\* C6: within one run() the returned slice is the concatenation, in the
\* order of submission, of the bytes read for each dr_rx / dr_txrx command,
\* with no interleaving or reordering, also when the backend transfers in
\* the middle of the batch.
C6_SubmissionOrder ==
    pc = "ready" => io.buf = expect

C6_Witness ==
    /\ pc = "ready" /\ ncmd = 2 /\ io.kind = "xpc" /\ io.xfers >= 2
    /\ Len(io.buf) = 2 /\ io.buf[1].tag = 1 /\ io.buf[2].tag = 2
    /\ io.buf[1].n = 2 /\ io.buf[2].n = 2 * FlushAt("xpc") + 1

(***************************************************************************)
(* devices.rs and detect_chain.  A 32-bit word read from the chain is kept *)
(* as its four bytes, least significant first, as they lie in the buffer.  *)
(***************************************************************************)
\* u32::to_le_bytes of a value below 2^31
LeBytes(x) == << x % 256, (x \div 256) % 256, (x \div 65536) % 256, x \div 16777216 >>

ALL_ONES == << 255, 255, 255, 255 >>

WordLsb_always_one(w) == 1

\* idcode & 1
WordLsb(w) == w[1] % 2

WordLow12_low_byte(w) == w[1]

\* idcode & 0xfff
WordLow12(w) == w[1] + 256 * (w[2] % 16)

IdCodeNew_keeps_version_bit(w) ==
    w[1] + 256 * w[2] + 65536 * w[3] + 16777216 * (w[4] % 32)

\* IdCode::new: the code without its version field (code & !0xf0000000)
IdCodeNew(w) == w[1] + 256 * w[2] + 65536 * w[3] + 16777216 * (w[4] % 16)

\* xilinx::DEVICES, the entries used here; id() stores the key masked
DEVICES ==
    (IdCodeNew(LeBytes(\H04A63093)) :> [irlen |-> 6, name |-> "XCKU3P"])
    @@ (IdCodeNew(LeBytes(\H14710093)) :> [irlen |-> 12, name |-> "XCZU3EG"])
    @@ (IdCodeNew(LeBytes(\H0362D093)) :> [irlen |-> 6, name |-> "XC7A35T"])
    @@ (IdCodeNew(LeBytes(\H036DB093)) :> [irlen |-> 38, name |-> "XC7VH870T"])

get_info_or_default(w) ==
    IF IdCodeNew(w) \notin DOMAIN DEVICES
      THEN [kind |-> "info", info |-> [irlen |-> 0, name |-> ""]]
    ELSE IF DEVICES[IdCodeNew(w)].irlen > 32 THEN [kind |-> "panic"]
    ELSE [kind |-> "info", info |-> DEVICES[IdCodeNew(w)]]

\* the closure get_info: the descriptor, an error, or the failed assertion.
\* An error is its message: the text (why) and the IDCODE it prints, if any.
get_info(w) ==
    IF IdCodeNew(w) \notin DOMAIN DEVICES THEN [kind |-> "err", why |-> "not found", word |-> w]
    ELSE IF DEVICES[IdCodeNew(w)].irlen > 32 THEN [kind |-> "panic"]
    ELSE [kind |-> "info", info |-> DEVICES[IdCodeNew(w)]]

\* the words the chain shifts out after Capture-DR: the IDCODE registers of
\* its devices, nearest to TDO first, then the ones shifted in on TDI
WordAt(ws, i) == IF i <= Len(ws) THEN ws[i] ELSE ALL_ONES

ChainWords(d) == IF d.awake THEN d.woken ELSE d.words

\* 0b100000 << (4 + 6) | 0b100100 << 4 | 0b1111
jtag_ctrl == U32(33359)

\* a wake-up routine whose second and third transfers take the path to
\* Shift-DR from Run-Test-Idle, not from Test-Logic-Reset
zynq_calls_from_idle(backend) ==
    LET reset_to_sir == Some(PATHS["TestLogicReset"]["ShiftIR"])
        sir_to_idle == Some(PATHS["ShiftIR"]["RunTestIdle"])
        idle_to_sdr == Some(PATHS["RunTestIdle"]["ShiftDR"])
        sdr_to_reset == Some(PATHS["ShiftDR"]["TestLogicReset"])
        sdr_to_idle == Some(PATHS["ShiftDR"]["RunTestIdle"])
        io1 == Backend_tms(backend, PathRESET)
        io2 == Backend_bits(io1, reset_to_sir, jtag_ctrl, 16, sir_to_idle)
        io3 == Backend_bytes(io2, idle_to_sdr, DataTx(<< 3, 0, 0, 0 >>), sdr_to_reset)
        io4 == Backend_bytes(io3, idle_to_sdr, DataConstantTx(TRUE, 4), sdr_to_reset)
        io5 == Backend_bytes(io4, idle_to_sdr, DataRx(4), sdr_to_idle)
    IN  Backend_flush(io5)

\* the backend calls of zynq_us_init_arm_dap
zynq_calls(backend) ==
    LET reset_to_sir == Some(PATHS["TestLogicReset"]["ShiftIR"])
        sir_to_idle == Some(PATHS["ShiftIR"]["RunTestIdle"])
        idle_to_sdr == Some(PATHS["RunTestIdle"]["ShiftDR"])
        sdr_to_reset == Some(PATHS["ShiftDR"]["TestLogicReset"])
        reset_to_sdr == Some(PATHS["TestLogicReset"]["ShiftDR"])
        sdr_to_idle == Some(PATHS["ShiftDR"]["RunTestIdle"])
        io1 == Backend_tms(backend, PathRESET)
        io2 == Backend_bits(io1, reset_to_sir, jtag_ctrl, 16, sir_to_idle)
        io3 == Backend_bytes(io2, idle_to_sdr, DataTx(<< 3, 0, 0, 0 >>), sdr_to_reset)
        io4 == Backend_bytes(io3, reset_to_sdr, DataConstantTx(TRUE, 4), sdr_to_reset)
        io5 == Backend_bytes(io4, reset_to_sdr, DataRx(4), sdr_to_idle)
    IN  Backend_flush(io5)

\* zynq_us_init_arm_dap on the cleared buffer: the cable after it and the
\* IDCODE or the error it returns; d is the chain once the routine has run
zynq_us_init_arm_dap(backend, d) ==
    Bind(zynq_calls(backend), LAMBDA io1 :
      LET w == WordAt(ChainWords(d), 1)
      IN  << io1,
             IF SegBytes(io1.buf, 1) # 4 THEN [kind |-> "err", why |-> "zynq fill"]
             ELSE IF w = ALL_ONES THEN [kind |-> "err", why |-> "end of chain"]
             ELSE IF WordLsb(w) # 1 THEN [kind |-> "err", why |-> "still in bypass"]
             ELSE [kind |-> "word", word |-> w] >>)

\* the entry detect_chain pushes: the raw IDCODE and the descriptor
Entry(w, info) == [idcode |-> w, info |-> info]

\* the head of an iteration of the loop of detect_chain, r the entries found
\* so far: the read of 4 * (r.len() + 1) bytes and the flush
round_read(backend, r) ==
    Backend_flush(Backend_bytes([OpenWindow(backend) EXCEPT !.tag = Len(r) + 1],
                                Some(PATHS["RunTestIdle"]["ShiftDR"]),
                                DataRx(4 * (Len(r) + 1)),
                                Some(PATHS["ShiftDR"]["RunTestIdle"])))

\* the rest of the iteration, the backend left as io1 by the read: as_chunks,
\* ids[ret.len()] (a panic when the buffer holds no such chunk), the match
round_match(io1, d, r) ==
    LET N == Len(r)
        id == WordAt(ChainWords(d), N + 1)
        woken == [d EXCEPT !.awake = TRUE]
        pushed(w, g) == IF g.kind = "info"
                          THEN [kind |-> "push", entry |-> Entry(w, g.info)] ELSE g
    IN    IF io1.panicked THEN [io |-> io1, dev |-> d, step |-> [kind |-> "panic"]]
          ELSE IF SegBytes(io1.buf, 1) % 4 # 0
            THEN [io |-> io1, dev |-> d, step |-> [kind |-> "err", why |-> "fill"]]
          ELSE IF N >= SegBytes(io1.buf, 1) \div 4
            THEN [io |-> io1, dev |-> d, step |-> [kind |-> "panic"]]
          ELSE IF id = ALL_ONES THEN [io |-> io1, dev |-> d, step |-> [kind |-> "break"]]
          ELSE IF N = 0 /\ WordLow12(id) = 294
            THEN Bind(zynq_us_init_arm_dap([io1 EXCEPT !.buf = << >>], woken), LAMBDA z :
                   [io |-> z[1], dev |-> woken,
                    step |-> IF z[2].kind = "err" THEN z[2]
                             ELSE pushed(z[2].word, get_info(z[2].word))])
          ELSE IF WordLsb(id) # 1
            THEN [io |-> io1, dev |-> d, step |-> [kind |-> "err", why |-> "bypass", word |-> id]]
          ELSE [io |-> io1, dev |-> d, step |-> pushed(id, get_info(id))]

\* one iteration of the loop of detect_chain with r the entries found so
\* far: the read of 4 * (r.len() + 1) bytes, the flush, the match on the last
\* word read.  The cable and the chain after it and what the iteration ends
\* in: a push, the break, an error or a panic.
round(backend, d, r) ==
    Bind(round_read(backend, r), LAMBDA io1 : round_match(io1, d, r))

(***************************************************************************)
(* SpecDetect: detect_chain on one of the three cables, from any TAP       *)
(* state, with a chain that shifts out the words dev.words until the Zynq  *)
(* routine has run and dev.woken after it.                                 *)
(***************************************************************************)
MaxChain == 2

Seqs(S, n) == UNION { [1..m -> S] : m \in 0..n }

\* a device in BYPASS (the word of the spec's test), an IDCODE that is in no
\* table, the fingerprint of a Zynq US+ whose first device is in BYPASS
W_BYPASS == LeBytes(\H12345678)
W_UNKNOWN == LeBytes(\H5BA00477)
W_ZYNQ == LeBytes(\H28E20126)

ChainAlphabet ==
    { LeBytes(\H04A63093), LeBytes(\H14710093), LeBytes(\H0362D093), LeBytes(\H036DB093),
      W_BYPASS, W_UNKNOWN, W_ZYNQ }

WokenChains ==
    { << >>, << LeBytes(\H14710093) >>, << LeBytes(\H14710093), LeBytes(\H0362D093) >>,
      << W_BYPASS >>, << W_UNKNOWN >> }

InitDetect ==
    /\ \E k \in {"fake", "ftdi", "xpc"}, checked \in BOOLEAN : io = NewIo(k, checked)
    \* FakeBackend::flush answers every read with its one IDCODE, then ones;
    \* a chain changes its answer only through the Zynq routine
    /\ \E ws \in Seqs(ChainAlphabet, IF io.kind = "fake" THEN 1 ELSE MaxChain) :
         \E wk \in (IF io.kind # "fake" /\ Len(ws) > 0 /\ WordLow12(WordAt(ws, 1)) = 294
                      THEN WokenChains ELSE { ws }) :
           dev = [words |-> ws, woken |-> wk, awake |-> FALSE]
    /\ tap \in State
    /\ pc = "detect"
    /\ ret = << >> /\ rounds = 0 /\ res = NoResult
    /\ chain = [before |-> << >>, irlen |-> 0, after |-> << >>]
    /\ ncmd = 0 /\ loc = NoLocals /\ last = CmdIdle(0) /\ expect = << >>
    /\ ParkedPaths
    /\ ParkedNot
    /\ ParkedFun

\* detect_chain up to its loop: RESET, RESET, Test-Logic-Reset to Run-Test-Idle
DetectBegin ==
    /\ pc = "detect"
    /\ io' = Backend_tms(Backend_tms(Backend_tms(OpenWindow(io), PathRESET), PathRESET),
                         PATHS["TestLogicReset"]["RunTestIdle"])
    /\ tap' = Replay(tap, io'.wire, 1)
    /\ pc' = "detect_loop"
    /\ UNCHANGED << chain, ncmd, loc, last, expect, pathVars, detVars, notVars, funVars >>

\* what an iteration that ended as o leaves behind
Conclude(o) ==
    /\ io' = IF o.step.kind = "push" THEN [o.io EXCEPT !.buf = << >>] ELSE o.io
    /\ dev' = o.dev
    /\ tap' = Replay(tap, o.io.wire, 1)
    /\ ret' = IF o.step.kind = "push" THEN Append(ret, o.step.entry) ELSE ret
    /\ pc' = CASE o.step.kind = "push" -> "detect_loop"
               [] o.step.kind = "break" -> "detect_done"
               [] o.step.kind = "err" -> "detect_err"
               [] o.step.kind = "panic" -> "panicked"
    /\ res' = CASE o.step.kind = "push" -> res
                [] o.step.kind = "break" -> [kind |-> "ok", chain |-> ret]
                [] o.step.kind = "err" -> o.step
                [] o.step.kind = "panic" -> o.step

\* one iteration of the loop
DetectRound ==
    /\ pc = "detect_loop"
    /\ \E o \in { round(io, dev, ret) } : Conclude(o)
    /\ rounds' = rounds + 1
    /\ UNCHANGED << chain, ncmd, loc, last, expect, pathVars, notVars, funVars >>

NextDetect == DetectBegin \/ DetectRound

SpecDetect == InitDetect /\ [][NextDetect]_vars

\* an IDCODE with LSB 1 that is in the device map
GoodWord(w) == WordLsb(w) = 1 /\ IdCodeNew(w) \in DOMAIN DEVICES

\* the raw IDCODEs paired with the descriptors of their masked values
Enrolled(ws) == [i \in 1..Len(ws) |-> Entry(ws[i], DEVICES[IdCodeNew(ws[i])])]

\* C10: if the chain yields k IDCODEs, each with LSB 1 and in the device map,
\* then all-ones, detect_chain ends after exactly k + 1 read rounds (round N
\* reads 4(N+1) bytes and examines the last 4) and returns exactly the k
\* entries in chain order, each the raw IDCODE with the descriptor of its
\* version-masked value; with k = 0 it returns an empty chain.
C10_DetectsChain ==
    (\A i \in 1..Len(dev.words) : GoodWord(dev.words[i])) =>
        /\ pc \notin {"detect_err", "panicked"}
        /\ rounds <= Len(dev.words) + 1
        /\ pc = "detect_done" =>
             /\ rounds = Len(dev.words) + 1
             /\ res = [kind |-> "ok", chain |-> Enrolled(dev.words)]

\* the word the next iteration of the loop examines, if it gets that far
NextWord == WordAt(ChainWords(dev), Len(ret) + 1)

\* C37: every descriptor in the built-in device database has an IR length of
\* at most 32 bits, so the irlen <= 32 assertion in detect_chain holds for
\* every IDCODE of the database and detection of a database device never
\* aborts on it.
C37_DatabaseWithinAssertion ==
    /\ (pc = "detect_loop" /\ GoodWord(NextWord)) => DEVICES[IdCodeNew(NextWord)].irlen <= 32
    /\ (pc = "panicked" /\ ~io.panicked) => ~GoodWord(NextWord)

\* the iteration got its 4 * (ret.len() + 1) bytes and left them in buf
ReadWhole == ~io'.panicked /\ SegBytes(io'.buf, 1) = 4 * (Len(ret) + 1)

\* C11: if the word a read round of detect_chain examines has LSB 0, and it
\* is not the Zynq fingerprint at the first position, detect_chain returns
\* the BYPASS error, whose message holds that word, and returns no chain, not
\* even the devices found so far.
C11_BypassAborts ==
    [][(/\ pc = "detect_loop"
        /\ NextWord[1] % 2 = 0
        /\ ~(Len(ret) = 0 /\ WordLow12(NextWord) = 294)
        /\ ReadWhole)
         => /\ pc' = "detect_err"
            /\ res' = [kind |-> "err", why |-> "bypass", word |-> NextWord]
            /\ ret' = ret]_vars

\* a device in BYPASS behind a device that was enrolled
C11_Witness ==
    /\ pc = "detect_err" /\ res.kind = "err" /\ res.why = "bypass"
    /\ Len(ret) = 1 /\ res.word = dev.words[2]

\* the cable shifted an instruction during the step: only the wake-up routine
\* of the Zynq US+ leaves Shift-DR's side of the TAP inside detect_chain
Woke == ShiftCycles(io'.wire, "ShiftIR") # << >>

\* the routine returns the word and get_info returns its descriptor
Enrollable(w) ==
    /\ w # ALL_ONES /\ w[1] % 2 = 1
    /\ IdCodeNew(w) \in DOMAIN DEVICES /\ DEVICES[IdCodeNew(w)].irlen <= 32

\* C12: the wake-up routine of the Zynq US+ runs exactly in the iteration
\* whose word is the first one examined and has low 12 bits 0x126, whatever
\* its LSB, and in no later iteration; the IDCODE the routine reads back is
\* enrolled at position 0, and the loop goes on with the next read round
\* until it sees all-ones.
C12_ZynqWakeUp ==
    [][pc = "detect_loop" =>
         /\ Woke <=> (Len(ret) = 0 /\ NextWord[1] + 256 * (NextWord[2] % 16) = 294)
         /\ (Woke /\ Enrollable(WordAt(dev.woken, 1))) =>
               /\ pc' = "detect_loop"
               /\ ret' = << Entry(dev.woken[1], DEVICES[IdCodeNew(dev.woken[1])]) >>
         /\ (dev.awake /\ pc' \notin {"detect_err", "panicked"}) =>
               /\ rounds' = Len(ret) + 1
               /\ IF NextWord = ALL_ONES
                    THEN pc' = "detect_done" /\ res' = [kind |-> "ok", chain |-> ret]
                    ELSE pc' = "detect_loop" /\ Len(ret') = Len(ret) + 1
                         /\ ret'[Len(ret')].idcode = NextWord]_vars

\* a Zynq US+ that answered in BYPASS, woke up, and has a second device behind
C12_Witness ==
    /\ pc = "detect_done" /\ dev.awake /\ dev.words[1][1] % 2 = 0
    /\ Len(res.chain) = 2 /\ res.chain[1].idcode = dev.woken[1] /\ rounds = 3

\* a word of a device (not the all-ones past the end of the chain) with LSB 1
\* whose version-masked value has no descriptor
Unknown(w) == w # ALL_ONES /\ w[1] % 2 = 1 /\ IdCodeNew(w) \notin DOMAIN DEVICES

\* detect_chain ends in the error that names w and keeps nothing
NotFound(w) ==
    /\ pc' = "detect_err"
    /\ res' = [kind |-> "err", why |-> "not found", word |-> w]
    /\ ret' = ret

\* C13: a word with LSB 1 whose version-masked value is not in the device
\* map, read at any position of the chain (by the loop or by the wake-up
\* routine), makes detect_chain return the error that names this IDCODE, with
\* no partial chain: the device is not enrolled and nothing panics.
C13_UnknownIdcode ==
    [][pc = "detect_loop" =>
         /\ Unknown(NextWord) => NotFound(NextWord)
         /\ (Woke /\ Unknown(WordAt(dev.woken, 1))) => NotFound(dev.woken[1])]_vars

\* an unknown IDCODE behind a device that was enrolled
C13_Witness ==
    /\ pc = "detect_err" /\ res.kind = "err" /\ res.why = "not found"
    /\ Len(ret) = 1 /\ res.word = dev.words[2]

(***************************************************************************)
(* SpecFail: Controller::new and run() on a transport that fails at one of *)
(* its first MaxFuse + 1 calls.                                            *)
(***************************************************************************)
MaxFuse == 10

FailChains ==
    { Chain(<< >>, 6, << >>), Chain(<< 6 >>, 6, << >>), Chain(<< 6 >>, 6, << 12 >>) }

InitFail ==
    /\ chain \in FailChains
    /\ pc = "new"
    /\ ncmd = 0
    /\ loc = NoLocals
    /\ \E k \in {"fake", "ftdi", "xpc"}, f \in 0..MaxFuse :
         io = [NewIo(k, FALSE) EXCEPT !.fuse = f]
    /\ tap \in {"TestLogicReset", "ShiftDR"}
    /\ last = CmdIdle(0)
    /\ expect = << >>
    /\ ParkedPaths
    /\ ParkedDet
    /\ ParkedNot
    /\ ParkedFun

NextFail == New \/ RunBegin \/ (\E c \in Commands : RunCommand(c)) \/ RunEnd

SpecFail == InitFail /\ [][NextFail]_vars

\* C14: when a backend call fails while run() processes a command, run()
\* returns the error: the failing call is the last call run() makes (no call
\* of the same command after it, no retry), no later command is processed
\* and the closing Path::IDLE and flush are not issued.
C14_ErrorAborts ==
    [][/\ pc # "run_err"
       /\ (pc = "run" /\ io'.failed) =>
             /\ pc' = "run_err"
             /\ io'.calls - io.calls = io.fuse + 1]_vars

\* the second of the three calls of the first command failed
C14_Witness ==
    /\ pc = "run_err" /\ ncmd = 1 /\ io.failed /\ io.calls = 2
    /\ Len(chain.before) > 0 /\ Len(chain.after) > 0

(***************************************************************************)
(* SpecNotify: run() inside and outside with_notifications.  A frame is a  *)
(* with_notifications call that has started and not ended; it holds the    *)
(* counter it was given and old_notify.  live are the counters whose       *)
(* borrow has not ended.                                                   *)
(***************************************************************************)
MaxDepth == 2

Counters == 1..(MaxDepth + 1)

\* the counters some pointer of the Controller or of a frame still names
Named == { notify } \cup { frames[i].old : i \in 1..Len(frames) }

NotifyCmds ==
    { CmdIr(9), CmdDrTx(Payload(2)), CmdDrRx(2), CmdDrTxRx(Payload(1)),
      CmdDrTxNotify(Payload(2)), CmdDrRxNotify(2), CmdDrTxRxNotify(Payload(1)) }

InitNotify ==
    /\ chain \in { Chain(<< >>, 6, << >>), Chain(<< 6 >>, 6, << 6 >>) }
    /\ pc = "new"
    /\ ncmd = 0
    /\ loc = NoLocals
    /\ \E k \in {"fake", "ftdi", "xpc"} : io = NewIo(k, FALSE)
    /\ tap = "TestLogicReset"
    /\ last = CmdIdle(0)
    /\ expect = << >>
    /\ ParkedPaths
    /\ ParkedDet
    /\ ParkedNot
    /\ ParkedFun

\* with_notifications up to f(self): mem::replace(&mut self.notify, Ptr(notify))
WithBegin ==
    /\ pc = "ready"
    /\ Len(frames) < MaxDepth
    /\ \E c \in Counters \ (live \cup Named) :
         /\ frames' = Append(frames, [counter |-> c, old |-> notify])
         /\ notify' = c
         /\ live' = live \cup { c }
    /\ UNCHANGED << ctlVars, pathVars, detVars, due, funVars >>

\* f(self).await returned: self.notify = old_notify; r
WithReturn ==
    /\ pc = "ready"
    /\ Len(frames) > 0
    /\ notify' = frames[Len(frames)].old
    /\ frames' = SubSeq(frames, 1, Len(frames) - 1)
    /\ live' = live \ { frames[Len(frames)].counter }
    /\ UNCHANGED << ctlVars, pathVars, detVars, due, funVars >>

\* f panics and the panic unwinds through with_notifications to a caller
\* that catches it: the assignment after the await is not run
WithPanic ==
    /\ pc = "ready"
    /\ Len(frames) > 0
    /\ frames' = SubSeq(frames, 1, Len(frames) - 1)
    /\ live' = live \ { frames[Len(frames)].counter }
    /\ UNCHANGED << notify, ctlVars, pathVars, detVars, due, funVars >>

\* the future of with_notifications is dropped while f is suspended at the
\* first await of run(), the cable having done nothing yet: nothing after the
\* await is run
WithDrop ==
    /\ pc = "run"
    /\ ncmd = 0
    /\ Len(frames) > 0
    /\ frames' = SubSeq(frames, 1, Len(frames) - 1)
    /\ live' = live \ { frames[Len(frames)].counter }
    /\ pc' = "ready"
    /\ UNCHANGED << notify, chain, ncmd, loc, io, tap, last, expect, pathVars, detVars, due, funVars >>

NextNotify ==
    \/ New \/ RunBegin \/ (\E c \in NotifyCmds : RunCommand(c)) \/ RunEnd
    \/ WithBegin \/ WithReturn \/ WithPanic \/ WithDrop

SpecNotify == InitNotify /\ [][NextNotify]_vars

\* C15: when a with_notifications call has ended, by return, by a panic
\* unwinding through it or by its future being dropped, the Controller's
\* pointer to the counter is what it was before the call (null at top level,
\* the outer call's counter when nested): no run() reads or writes a counter
\* whose call has ended.
C15_CounterReleased ==
    /\ notify = IF Len(frames) = 0 THEN NULL ELSE frames[Len(frames)].counter
    /\ pc = "run" => notify \in live \cup { NULL }

\* C16: inside with_notifications, when run() returns Ok the counter has
\* grown by exactly the bytes of the commands whose notify flag is set (n for
\* a flagged command of n bytes), in whatever order flagged and unflagged
\* commands come; the bytes of unflagged commands are never added.
C16_CounterAddsFlaggedBytes ==
    [][(pc = "run" /\ pc' = "ready" /\ frames' = frames
          /\ notify # NULL /\ notify \in live)
         => io'.count = due]_vars

(***************************************************************************)
(* SpecType1: Type1::to_raw on the packets the configuration code builds.  *)
(* A word below 2^31 is kept as an integer.                                *)
(***************************************************************************)
\* enum OpCode, `op as u8`
OpCode == [Noop |-> 0, Read |-> 1, Write |-> 2, Unknown |-> 3]

\* enum Addr, `addr as u16`
Addr == { 0, 1, 2, 3, 4, 5, 6, 7, 8, 9, 10, 11, 12, 13, 14, 16, 17, 19, 22, 24, 26, 30, 31 }

\* Type1::to_raw; the fields do not overlap, so `|` adds them
Type1_to_raw(t) ==
    LET header == 1 * Pow2(29)
        opcode == (OpCode[t.op] % 4) * Pow2(27)
        address == (t.addr % 16384) * Pow2(13)
        word_count == t.word_count % 1024
    IN  header + opcode + address + word_count

\* the word counts tried, around the limits of 10 and 11 bits
WordCounts == { 0, 1, 2, 1023, 1024, 1025, 2047 }

InitType1 ==
    /\ call = "to_raw"
    /\ arg \in [op : {"Noop", "Read", "Write"}, addr : Addr, word_count : WordCounts]
    /\ out = None
    /\ ParkedPaths /\ ParkedCtl /\ ParkedDet /\ ParkedNot

ToRaw ==
    /\ call = "to_raw" /\ out = None
    /\ out' = Some(Type1_to_raw(arg))
    /\ UNCHANGED << call, arg, pathVars, ctlVars, detVars, notVars >>

NextType1 == ToRaw

SpecType1 == InitType1 /\ [][NextType1]_vars

\* bits [hi:lo] of a word
Field(raw, hi, lo) == (raw \div Pow2(lo)) % Pow2(hi - lo + 1)

\* C17: Type1::to_raw loses nothing on legal inputs: for op in {Noop, Read,
\* Write}, an address below 16384 and a word count of 11 bits, the word has
\* 001 in [31:29], 0 in [12:11], and its fields [28:27], [26:13] and [10:0]
\* are op, addr and word_count.
C17_Type1RoundTrip ==
    (call = "to_raw" /\ out # None) =>
        /\ Field(out[1], 31, 29) = 1
        /\ Field(out[1], 12, 11) = 0
        /\ Field(out[1], 28, 27) = OpCode[arg.op]
        /\ Field(out[1], 26, 13) = arg.addr
        /\ Field(out[1], 10, 0) = arg.word_count

(***************************************************************************)
(* SpecWire: bitstream_to_wire_order on an array of words and the decoding *)
(* of read_device_register_word on what comes back.  A u32 is its 32 bits, *)
(* least significant first; a byte is a number.                            *)
(***************************************************************************)
\* the u32 with the 16-bit halves hi and lo
W32(hi, lo) == [i \in 1..32 |-> IF i <= 16 THEN BitAt(lo, i - 1) ELSE BitAt(hi, i - 17)]

\* the byte made of bits lo .. lo + 7 of x
ByteOf(x, lo) ==
    x[lo] + 2 * x[lo + 1] + 4 * x[lo + 2] + 8 * x[lo + 3]
      + 16 * x[lo + 4] + 32 * x[lo + 5] + 64 * x[lo + 6] + 128 * x[lo + 7]

u32_to_le_bytes(x) == << ByteOf(x, 1), ByteOf(x, 9), ByteOf(x, 17), ByteOf(x, 25) >>

\* u32::to_be_bytes: the most significant byte first
u32_to_be_bytes(x) == << ByteOf(x, 25), ByteOf(x, 17), ByteOf(x, 9), ByteOf(x, 1) >>

\* u32::from_be_bytes
u32_from_be_bytes(bs) == [i \in 1..32 |-> BitAt(bs[4 - ((i - 1) \div 8)], (i - 1) % 8)]

\* u8::reverse_bits
u8_reverse_bits(b) ==
    128 * BitAt(b, 0) + 64 * BitAt(b, 1) + 32 * BitAt(b, 2) + 16 * BitAt(b, 3)
      + 8 * BitAt(b, 4) + 4 * BitAt(b, 5) + 2 * BitAt(b, 6) + BitAt(b, 7)

\* x.map(|x| x.to_be_bytes().map(u8::reverse_bits))
bitstream_to_wire_order(x) ==
    [i \in 1..Len(x) |-> [k \in 1..4 |-> u8_reverse_bits(u32_to_be_bytes(x[i])[k])]]

\* read_device_register_word on the four bytes read:
\* u32::from_be_bytes(data.map(|x| x.reverse_bits()))
decode_word(data) == u32_from_be_bytes([k \in 1..4 |-> u8_reverse_bits(data[k])])

MaxWords == 3

\* Type1::SYNC, Type1::NOOP, a read of STAT, an IDCODE, a word with one bit
WireWords ==
    { W32(43673, 21862), W32(8192, 0), W32(10240, 57345), W32(866, 53395), W32(0, 1) }

InitWire ==
    /\ call = "wire"
    /\ arg \in Seqs(WireWords, MaxWords)
    /\ out = << >>
    /\ ParkedPaths /\ ParkedCtl /\ ParkedDet /\ ParkedNot

\* the words are put in wire order
ToWire ==
    /\ call = "wire" /\ Len(out) = 0
    /\ out' = << bitstream_to_wire_order(arg) >>
    /\ UNCHANGED << call, arg, pathVars, ctlVars, detVars, notVars >>

\* each group of four bytes is decoded as a word read back
FromWire ==
    /\ call = "wire" /\ Len(out) = 1
    /\ out' = << out[1], [i \in 1..Len(out[1]) |-> decode_word(out[1][i])] >>
    /\ UNCHANGED << call, arg, pathVars, ctlVars, detVars, notVars >>

NextWire == ToWire \/ FromWire

SpecWire == InitWire /\ [][NextWire]_vars

\* C18: the wire-order transformation round-trips: reversing the bits of
\* each byte of bitstream_to_wire_order(x) and assembling each four bytes
\* big-endian gives x back, word for word in the order of the array;
\* reflecting a byte twice is the identity.
C18_WireRoundTrip ==
    /\ \A b \in 0..255 : u8_reverse_bits(u8_reverse_bits(b)) = b
    /\ (call = "wire" /\ Len(out) >= 1) => Len(out[1]) = Len(arg)
    /\ (call = "wire" /\ Len(out) = 2) => out[2] = arg

\* Type1::SYNC, 0xAA995566, goes out as 55 99 AA 66 in front of another word
C18_Witness ==
    /\ call = "wire" /\ Len(out) = 2 /\ Len(arg) = 2
    /\ arg[1] = W32(43673, 21862) /\ arg[2] = W32(10240, 57345)
    /\ out[1][1] = << 85, 153, 170, 102 >>
    /\ out[2] = arg

(***************************************************************************)
(* SpecIdCode: IdCode::new and the lookup in the device map on two codes.  *)
(* A code is its four little-endian bytes, IdCode.0 a number below 2^28.   *)
(***************************************************************************)
\* devices.get(&IdCode::new(idcode))
devices_get(w) == IF IdCodeNew(w) \in DOMAIN DEVICES THEN Some(DEVICES[IdCodeNew(w)]) ELSE None

\* the code with bits [31:28] set to v
WithVersion(w, v) == [w EXCEPT ![4] = (@ % 16) + 16 * v]

Versions == { 0, 1, 5, 8, 15 }

Codes ==
    { WithVersion(w, v) :
        w \in { LeBytes(\H04A63093), LeBytes(\H0362D093), W_UNKNOWN, W_BYPASS },
        v \in Versions }

InitIdCode ==
    /\ call = "idcode"
    /\ arg \in [a : Codes, b : Codes]
    /\ out = << >>
    /\ ParkedPaths /\ ParkedCtl /\ ParkedDet /\ ParkedNot

\* IdCode::new(a).code(), IdCode::new(b).code() and the two lookups
MaskCodes ==
    /\ call = "idcode" /\ Len(out) = 0
    /\ out' = << IdCodeNew(arg.a), IdCodeNew(arg.b), devices_get(arg.a), devices_get(arg.b) >>
    /\ UNCHANGED << call, arg, pathVars, ctlVars, detVars, notVars >>

NextIdCode == MaskCodes

SpecIdCode == InitIdCode /\ [][NextIdCode]_vars

\* bit i (from 0) of a code
CodeBit(w, i) == BitAt(w[(i \div 8) + 1], i % 8)

\* C19: IdCode::new(code).code() is code & 0x0FFFFFFF for every code: bits
\* [27:0] are those of code and bits [31:28] are 0.  Two IDCODEs that differ
\* only in the version field compare equal and find the same descriptor.
C19_VersionMasked ==
    (call = "idcode" /\ Len(out) = 4) =>
        /\ out[1] \in 0..(Pow2(28) - 1)
        /\ \A i \in 0..27 : BitAt(out[1], i) = CodeBit(arg.a, i)
        /\ (\A i \in 0..27 : CodeBit(arg.a, i) = CodeBit(arg.b, i)) =>
              (out[1] = out[2] /\ out[3] = out[4])

\* 0x8362D093 and 0x1362D093 both find the XC7A35T
C19_Witness ==
    /\ call = "idcode" /\ Len(out) = 4
    /\ arg.a = LeBytes(\H0362D093) /\ arg.a[4] # arg.b[4]
    /\ arg.b = << 147, 208, 98, 19 >>
    /\ out[1] = out[2] /\ out[3] = out[4] /\ IsSome(out[3]) /\ out[3][1].name = "XC7A35T"

(***************************************************************************)
(* SpecTarget: the choice of the target in get_controller, from the chain  *)
(* detect_chain returned and the --jtag-idx of the command line.           *)
(***************************************************************************)
\* items.iter().map(|(_, info)| info.clone()).collect() on items[lo .. hi]
collect(items, lo, hi) == [k \in 1..(hi - lo + 1) |-> items[lo + k - 1].info]

\* a selection that takes the first device when no index is given
select_target_defaults_to_first(devices, jtag_idx) ==
    LET n == Len(devices)
        idx == IF IsSome(jtag_idx) THEN jtag_idx[1] ELSE 0
    IN  IF n = 0 THEN [kind |-> "err", why |-> "no devices"]
        ELSE IF idx >= n THEN [kind |-> "err", why |-> "idx too large"]
        ELSE [kind |-> "ok", before |-> collect(devices, 1, idx),
              device |-> devices[idx + 1], after |-> collect(devices, idx + 2, n)]

\* the match on (&devices[..], jtag_idx) in get_controller, arm by arm: the
\* arguments Controller::new is called with, or the error returned before it
select_target(devices, jtag_idx) ==
    LET n == Len(devices)
    IN  IF n = 0 THEN [kind |-> "err", why |-> "no devices"]
        ELSE IF n = 1 /\ (jtag_idx = Some(0) \/ jtag_idx = None)
          THEN [kind |-> "ok", before |-> << >>, device |-> devices[1], after |-> << >>]
        ELSE IF IsSome(jtag_idx) /\ jtag_idx[1] >= n
          THEN [kind |-> "err", why |-> "idx too large"]
        ELSE IF jtag_idx = None
          THEN [kind |-> "err", why |-> "no index"]
        ELSE [kind |-> "ok", before |-> collect(devices, 1, jtag_idx[1]),
              device |-> devices[jtag_idx[1] + 1],
              after |-> collect(devices, jtag_idx[1] + 2, n)]

MaxTargets == 3

\* entries detect_chain can return
Detected ==
    { Entry(w, DEVICES[IdCodeNew(w)]) :
        w \in { LeBytes(\H04A63093), LeBytes(\H14710093), LeBytes(\H0362D093) } }

InitTarget ==
    /\ call = "get_controller"
    /\ \E ds \in Seqs(Detected, MaxTargets), i \in { None } \cup { Some(k) : k \in 0..(MaxTargets + 1) } :
         arg = [devices |-> ds, jtag_idx |-> i]
    /\ out = None
    /\ ParkedPaths /\ ParkedCtl /\ ParkedDet /\ ParkedNot

SelectTarget ==
    /\ call = "get_controller" /\ out = None
    /\ out' = Some(select_target(arg.devices, arg.jtag_idx))
    /\ UNCHANGED << call, arg, pathVars, ctlVars, detVars, notVars >>

NextTarget == SelectTarget

SpecTarget == InitTarget /\ [][NextTarget]_vars

\* C20: with a chain of n devices and an optional index i, the selection
\* succeeds iff n >= 1 and either i < n or i is absent and n = 1.  Then
\* (i = 0 when absent) before is the devices at positions 0..i, target the
\* device at i, after the devices at i+1..n, in chain order, so that
\* |before| + 1 + |after| = n.  In every other case it fails with an error
\* and Controller::new is not called.
C20_TargetSelection ==
    (call = "get_controller" /\ out # None) =>
        LET n == Len(arg.devices)
            given == arg.jtag_idx # None
            i == IF given THEN arg.jtag_idx[1] ELSE 0
            r == out[1]
        IN  IF n >= 1 /\ ((given /\ i < n) \/ (~given /\ n = 1))
              THEN /\ r.kind = "ok"
                   /\ Len(r.before) = i /\ Len(r.after) = n - i - 1
                   /\ \A k \in 1..i : r.before[k] = arg.devices[k].info
                   /\ r.device = arg.devices[i + 1]
                   /\ \A k \in 1..(n - i - 1) : r.after[k] = arg.devices[i + 1 + k].info
                   /\ Len(r.before) + 1 + Len(r.after) = n
              ELSE r.kind = "err" /\ DOMAIN r = { "kind", "why" }

\* the XC7A35T, then the XCKU3P, index 1: before = [xc7a35t], target xcku3p
C20_Witness ==
    /\ call = "get_controller" /\ out # None
    /\ Len(arg.devices) = 2 /\ arg.jtag_idx = Some(1)
    /\ arg.devices[1].idcode = LeBytes(\H0362D093)
    /\ arg.devices[2].idcode = LeBytes(\H04A63093)
    /\ out[1].kind = "ok" /\ Len(out[1].before) = 1 /\ out[1].before[1].name = "XC7A35T"
    /\ out[1].device.info.name = "XCKU3P" /\ out[1].after = << >>

(***************************************************************************)
(* Controller::run with IR instructions of any width.                      *)
(***************************************************************************)
\* the instructions handed to Command::ir: two that fit the 6 bits of the
\* shortest IR, one with bit 6 set, one with bit 12 set, and the value
\* shift_for_slr(0, CFG_IN) of a register read (CFG_IN under four fields of
\* 0b100100)
WideIrValues == { 9, 50, 73, 4105, 613566725 }

ShapeCommands ==
    { CmdIr(v) : v \in WideIrValues }
      \cup { CmdDrTx(Payload(1)), CmdDrRx(1) }

NextShape == New \/ RunBegin \/ (\E c \in ShapeCommands : RunCommand(c)) \/ RunEnd

SpecShape == InitCtl(Chains) /\ [][NextShape]_vars

\* the instruction of the command just run has a 1 bit at or above the
\* IR length of the target
TooWide == ncmd > 0 /\ last.op = "IrTxBits" /\ last.val >= Pow2(chain.irlen)

\* C21: run() with an IR command whose value has a 1 bit at or above the
\* target's IR length fails an assertion; it never goes on to shift the
\* truncated instruction.
C21_WideIrAsserts == TooWide => pc = "panicked"

\* C21 as the code has it: run() does not compare an IR command with the
\* target's IR length; a value with 1 bits at or above it is shifted as its
\* low irlen bits are, with the same calls, cycles and outcome as the
\* command of the truncated value, and no assertion fires on the width.
C21_WideIrTruncated ==
    [][(pc = "run" /\ ncmd' = ncmd + 1 /\ last'.op = "IrTxBits"
          /\ last'.val >= Pow2(chain.irlen))
         => io' = run_command([OpenWindow(io) EXCEPT !.tag = ncmd + 1, !.noisy = FALSE],
                              CmdIr(last'.val % Pow2(chain.irlen)), chain.irlen, loc)]_vars

\* the instruction a register read hands to a target of one SLR has been
\* shifted into its IR of 6 bits and run() goes on
C21_Witness ==
    /\ TooWide /\ pc = "run" /\ ~io.panicked
    /\ last.val = 613566725 /\ chain.irlen = 6

(***************************************************************************)
(* The cycles of Controller::new.                                          *)
(***************************************************************************)
\* the TMS levels of `resets` times Path::RESET followed by the path from
\* Test-Logic-Reset to Run-Test-Idle
RECURSIVE ResetsThenIdle(_)
ResetsThenIdle(resets) ==
    IF resets = 0
      THEN PathTms(<< >>, PATHS["TestLogicReset"]["RunTestIdle"], 0)
      ELSE AddRuns(PathTms(<< >>, PathRESET, 0), ResetsThenIdle(resets - 1), 1)

\* nothing is left queued in the backend
Drained(b) == b.cmd_len = 0 /\ b.cmd_read_len = 0 /\ b.num_bits = 0

\* the step is Controller::new and it hands the cable `resets` RESET paths
\* and the path to Run-Test-Idle, in that order, in calls + 1 backend calls
\* of which the last is the one flush
NewClocks(resets) ==
    /\ (pc = "new" /\ pc' = "ready") =>
          /\ TmsOnly(io'.wire) = ResetsThenIdle(resets)
          /\ io'.calls = resets + 2
          /\ io'.xfers = 1
          /\ Drained(io')
    /\ pc' = "run" => pc \in {"ready", "run"}
    /\ ncmd' > ncmd => pc = "run"

\* C23 as stated: Controller::new clocks Path::RESET twice, then the
\* Test-Logic-Reset to Run-Test-Idle path, then flushes the backend, in that
\* order and before any command can be run.
C23_NewResetsTwice == [][NewClocks(2)]_vars

\* C23, amended: Controller::new clocks Path::RESET once, then the
\* Test-Logic-Reset to Run-Test-Idle path, then flushes the backend, in that
\* order and before any command can be run.
C23_NewResetsOnce == [][NewClocks(1)]_vars

C23_Witness ==
    /\ pc = "ready" /\ ncmd = 0 /\ io.calls = 3 /\ io.xfers = 1 /\ io.kind = "xpc"
    /\ TmsOnly(io.wire) = ResetsThenIdle(1)
    /\ tap = "RunTestIdle"

(***************************************************************************)
(* The level of TDI while a tms(path) call is clocked.                     *)
(***************************************************************************)
\* the command just run ended with a shift of at least one bit
ShiftEnded ==
    /\ ncmd > 0
    /\ last.op \in {"IrTxBits", "DrTx", "DrTxRx"}
    /\ last.op # "IrTxBits" => last.len >= 1

\* the last TDI bit of that shift: a one of the padding when devices follow
\* the target, else the top bit of the instruction or of the last byte
LastTdi ==
    IF chain.after # << >> THEN TRUE
    ELSE IF last.op = "IrTxBits" THEN BitAt(last.val, chain.irlen - 1) = 1
    ELSE BitAt(last.tdi[last.len], 7) = 1

\* every cycle of the window holds TDI at level
TdiHeld(w, level) == \A k \in 1..Len(w) : w[k].tck => w[k].tdi = level

\* C24: for every backend, the TDI level held during the cycles of a
\* tms(path) call equals the last TDI bit of the most recent shift: low if
\* that shift ended with a 0 bit, high if it ended with a 1 bit.  The call
\* observed is the tms(Path::IDLE) that closes run().
C24_TmsHoldsLastTdi ==
    [][(pc = "run" /\ pc' = "ready" /\ ShiftEnded) => TdiHeld(io'.wire, LastTdi)]_vars

(***************************************************************************)
(* SpecTmsCmd: the MPSSE commands the FTDI backend queues for one path of  *)
(* the table.                                                              *)
(***************************************************************************)
InitTmsCmd ==
    /\ call = "tms_internal"
    /\ arg \in [start : State, end : State, tdi : BOOLEAN]
    /\ out = None
    /\ ParkedPaths /\ ParkedCtl /\ ParkedDet /\ ParkedNot

\* Device::tms_internal(buf, PATHS[start][end], tdi): what it pushes to cmd_buf
TmsInternal ==
    /\ call = "tms_internal" /\ out = None
    /\ out' = Some(Ftdi_tms_commands(PATHS[arg.start][arg.end], arg.tdi, TRUE))
    /\ UNCHANGED << call, arg, pathVars, ctlVars, detVars, notVars >>

NextTmsCmd == TmsInternal

SpecTmsCmd == InitTmsCmd /\ [][NextTmsCmd]_vars

\* the TMS bits a WRITE_TMS command clocks: its length byte plus one
TmsBitsOf(cmd) == cmd[2] + 1

\* C25: the FTDI backend never encodes more than 7 TMS bits in one WRITE_TMS
\* command: a path of 8 bits is split into several commands, so that bit 7
\* of the data byte always carries only the TDI level and never a TMS bit.
C25_SevenTmsBits ==
    (call = "tms_internal" /\ IsSome(out)) =>
        \A k \in 1..Len(out[1]) :
            /\ out[1][k][1] = WRITE_TMS_FLAGS
            /\ TmsBitsOf(out[1][k]) <= 7
            /\ (BitAt(out[1][k][3], 7) = 1) = arg.tdi

(***************************************************************************)
(* The size of the reads one FTDI transfer asks for.                       *)
(***************************************************************************)
\* C26: in the FTDI backend, reaching 65,536 queued command bytes or 65,536
\* pending read bytes triggers an auto-flush, so that after any sequence of
\* tms/bits/bytes calls no single USB transfer (auto-flush or explicit
\* flush) asks the chip to return more than 65,536 read bytes.
C26_ReadsWithinChipBuffer ==
    io.kind = "ftdi" =>
        /\ io.asked <= MAX_READ_WRITE_LEN
        /\ io.cmd_len < MAX_CMD_LEN
        /\ io.cmd_read_len < MAX_READ_WRITE_LEN

(***************************************************************************)
(* xpc.rs, byte by byte.  SpecPack keeps the XPC backend's cmd_buf as the  *)
(* bytes it holds: arg is the device (cmd_buf, num_bits, cmd_read_len, the *)
(* transfers made so far as `sent`, and the cycles the calls have asked    *)
(* add_bit for, in order, as `cycles`); out lists the calls made.          *)
(***************************************************************************)
MaxPackCalls == 2

NewPacked ==
    [cmd_buf |-> << >>, num_bits |-> 0, cmd_read_len |-> 0, sent |-> << >>, cycles |-> << >>]

\* b | (v as u8) << k
OrBit(b, v, k) == IF v /\ BitAt(b, k) = 0 THEN b + Pow2(k) ELSE b

\* an add_bit_internal with the two nibbles of the second byte exchanged
Packed_add_bit_internal_swapped(d, tms, tdi, tdo, tck) ==
    LET buf == IF d.num_bits = 0 THEN d.cmd_buf \o << 0, 0 >> ELSE d.cmd_buf
        len == Len(buf)
        b0 == OrBit(OrBit(buf[len - 1], tms, d.num_bits + 4), tdi, d.num_bits)
        b1 == OrBit(OrBit(buf[len], tck, d.num_bits + 4), tdo, d.num_bits)
    IN  [d EXCEPT !.cmd_buf = [buf EXCEPT ![len - 1] = b0, ![len] = b1],
                  !.num_bits = (@ + 1) % 4]

\* Device::add_bit_internal
Packed_add_bit_internal(d, tms, tdi, tdo, tck) ==
    LET buf == IF d.num_bits = 0 THEN d.cmd_buf \o << 0, 0 >> ELSE d.cmd_buf
        len == Len(buf)
        b0 == OrBit(OrBit(buf[len - 1], tms, d.num_bits + 4), tdi, d.num_bits)
        b1 == OrBit(OrBit(buf[len], tdo, d.num_bits + 4), tck, d.num_bits)
    IN  [d EXCEPT !.cmd_buf = [buf EXCEPT ![len - 1] = b0, ![len] = b1],
                  !.num_bits = (@ + 1) % 4]

\* Device::add_bit; the cycle asked for is noted
Packed_add_bit(d, tms, tdi, tdo) ==
    [Packed_add_bit_internal(d, tms, tdi, tdo, TRUE)
       EXCEPT !.cycles = Append(@, << tms, tdi, tdo >>)]

\* Device::flush: the transfer is kept as the bytes sent, the bit count of
\* the vendor request and the bytes read from bulk-in
Packed_flush(d) ==
    LET d1 == IF d.num_bits = 0
                THEN Packed_add_bit_internal(d, FALSE, FALSE, FALSE, FALSE) ELSE d
        in_bits == ((Len(d1.cmd_buf) - 2) \div 2) * 4 + d1.num_bits
    IN  [d1 EXCEPT !.sent = Append(@, [data |-> d1.cmd_buf, in_bits |-> in_bits,
                                        read |-> d1.cmd_read_len]),
                   !.cmd_buf = << >>, !.cmd_read_len = 0, !.num_bits = 0]

\* Device::maybe_flush
Packed_maybe_flush(d) == IF Len(d.cmd_buf) >= MAX_BUF_LEN THEN Packed_flush(d) ELSE d

\* for tms in path { self.add_bit(tms, true, false) }, from position idx
RECURSIVE Packed_path(_, _, _)
Packed_path(d, path, idx) ==
    IF idx >= path.len THEN d
    ELSE Packed_path(Packed_add_bit(d, PathBit(path, idx), TRUE, FALSE), path, idx + 1)

\* Device::tms
Packed_tms(d, path) == Packed_maybe_flush(Packed_path(d, path, 0))

\* while self.num_bits != 0 { self.add_bit_internal(false, false, false, false) }
RECURSIVE Packed_align(_)
Packed_align(d) ==
    IF d.num_bits = 0 THEN d
    ELSE Packed_align(Packed_add_bit_internal(d, FALSE, FALSE, FALSE, FALSE))

\* bits k.. of one byte of payload, up to and excluding bit `stop`
RECURSIVE Packed_byte(_, _, _, _, _)
Packed_byte(d, byte, tdo, k, stop) ==
    IF k >= stop THEN d
    ELSE Packed_byte(Packed_add_bit(d, FALSE, BitAt(byte, k) = 1, tdo), byte, tdo, k + 1, stop)

\* the loop of the Tx / TxRx arm of Device::bytes
RECURSIVE Packed_tx_loop(_, _, _, _, _)
Packed_tx_loop(d, tdi, tdo, merge, idx) ==
    IF idx > Len(tdi) THEN d
    ELSE LET d1 == Packed_byte(d, tdi[idx], tdo, 0, IF merge /\ idx = Len(tdi) THEN 7 ELSE 8)
             d2 == IF tdo THEN [d1 EXCEPT !.cmd_read_len = @ + 1] ELSE d1
         IN  Packed_tx_loop(Packed_maybe_flush(d2), tdi, tdo, merge, idx + 1)

\* the loop of the Rx / ConstantTx arm of Device::bytes
RECURSIVE Packed_const_loop(_, _, _, _, _, _)
Packed_const_loop(d, tdi, tdo, merge, idx, len) ==
    IF idx > len THEN d
    ELSE LET d1 == Packed_byte(d, IF tdi THEN 255 ELSE 0, tdo, 0,
                               IF merge /\ idx = len THEN 7 ELSE 8)
             d2 == IF tdo THEN [d1 EXCEPT !.cmd_read_len = @ + 1] ELSE d1
         IN  Packed_const_loop(Packed_maybe_flush(d2), tdi, tdo, merge, idx + 1, len)

\* the `after` block of bytes and bits
Packed_after(d, after, last_tdi, last_tdo) ==
    IF ~IsSome(after) \/ after[1].len = 0 THEN d
    ELSE Packed_path(Packed_add_bit(d, PathBit(after[1], 0), last_tdi, last_tdo),
                     after[1], 1)

\* Device::bytes
Packed_bytes(d, before, data, after) ==
    LET d0 == IF IsSome(before) THEN Packed_path(d, before[1], 0) ELSE d
        d1 == Packed_align(d0)
        merge == IsSome(after)
        isTx == data.variant \in {"Tx", "TxRx"}
        tdo == data.variant \in {"TxRx", "Rx"}
        tdi == IF data.variant = "ConstantTx" THEN data.bit ELSE TRUE
        d2 == IF isTx THEN Packed_tx_loop(d1, data.tdi, tdo, merge, 1)
              ELSE Packed_const_loop(d1, tdi, tdo, merge, 1, data.len)
        last_tdi == IF isTx /\ merge /\ data.len > 0
                      THEN BitAt(data.tdi[data.len], 7) = 1 ELSE TRUE
        last_tdo == IF merge /\ data.len > 0 THEN tdo ELSE FALSE
    IN  Packed_maybe_flush(Packed_after(d2, after, last_tdi, last_tdo))

\* for _ in 0..len { self.add_bit(tms, data & 1 == 1, false); data >>= 1 }
RECURSIVE Packed_bits_loop(_, _, _)
Packed_bits_loop(d, data, len) ==
    IF len = 0 THEN d
    ELSE Packed_bits_loop(Packed_add_bit(d, FALSE, LowBit(data), FALSE), ShiftR(data, 1), len - 1)

\* Device::bits
Packed_bits(d, before, data, len, after) ==
    LET d0 == IF IsSome(before) THEN Packed_path(d, before[1], 0) ELSE d
        n == IF IsSome(after) THEN SubOne(len, FALSE) ELSE len
    IN  Packed_maybe_flush(
          Packed_after(Packed_bits_loop(d0, data, n), after, LowBit(ShiftR(data, n)), FALSE))

PackPaths == { PathRESET, PATHS["TestLogicReset"]["RunTestIdle"] }
PackBefore == { None, Some(PATHS["RunTestIdle"]["ShiftDR"]) }
PackAfter == { None, Some(PATHS["ShiftDR"]["RunTestIdle"]) }
PackData ==
    { DataTx(Payload(1)), DataTxRx(Payload(2)), DataRx(1), DataConstantTx(FALSE, 1) }
PackBitLens == { 5, 6 }

InitPack ==
    /\ call = "pack"
    /\ arg = NewPacked
    /\ out = << >>
    /\ ParkedPaths /\ ParkedCtl /\ ParkedDet /\ ParkedNot

PackTms(path) ==
    /\ call = "pack" /\ Len(out) < MaxPackCalls
    /\ arg' = Packed_tms(arg, path)
    /\ out' = Append(out, "tms")
    /\ UNCHANGED << call, pathVars, ctlVars, detVars, notVars >>

PackBytes(before, data, after) ==
    /\ call = "pack" /\ Len(out) < MaxPackCalls
    /\ arg' = Packed_bytes(arg, before, data, after)
    /\ out' = Append(out, "bytes")
    /\ UNCHANGED << call, pathVars, ctlVars, detVars, notVars >>

PackBits(before, data, len, after) ==
    /\ call = "pack" /\ Len(out) < MaxPackCalls
    /\ arg' = Packed_bits(arg, before, data, len, after)
    /\ out' = Append(out, "bits")
    /\ UNCHANGED << call, pathVars, ctlVars, detVars, notVars >>

PackFlush ==
    /\ call = "pack" /\ Len(out) > 0 /\ out[Len(out)] # "flush"
    /\ arg' = Packed_flush(arg)
    /\ out' = Append(out, "flush")
    /\ call' = "flushed"
    /\ UNCHANGED << pathVars, ctlVars, detVars, notVars >>

NextPack ==
    \/ \E path \in PackPaths : PackTms(path)
    \/ \E before \in PackBefore, data \in PackData, after \in PackAfter :
         PackBytes(before, data, after)
    \/ \E before \in PackBefore, len \in PackBitLens, after \in PackAfter :
         PackBits(before, U32(9), len, after)
    \/ PackFlush

SpecPack == InitPack /\ [][NextPack]_vars

\* the slots written to a buffer that was left at position num_bits
SlotsOf(buf, num_bits) ==
    IF Len(buf) = 0 THEN 0
    ELSE ((Len(buf) - 2) \div 2) * 4 + (IF num_bits = 0 THEN 4 ELSE num_bits)

\* slot j of the packed buffer (from 0): cycle j is bit j mod 4 of the
\* nibbles of byte pair j div 4, TMS in byte0[7:4], TDI in byte0[3:0], the
\* sample mask in byte1[7:4] and the clock mask in byte1[3:0]
SlotAt(buf, j) ==
    [tms |-> BitAt(buf[2 * (j \div 4) + 1], (j % 4) + 4) = 1,
     tdi |-> BitAt(buf[2 * (j \div 4) + 1], j % 4) = 1,
     tdo |-> BitAt(buf[2 * (j \div 4) + 2], (j % 4) + 4) = 1,
     tck |-> BitAt(buf[2 * (j \div 4) + 2], j % 4) = 1]

\* the cycles decoded from the first n slots: all of them, or only those
\* whose clock bit is set
RECURSIVE Decode(_, _, _, _)
Decode(buf, n, j, clocked_only) ==
    IF j >= n THEN << >>
    ELSE (IF clocked_only /\ ~SlotAt(buf, j).tck THEN << >>
          ELSE << << SlotAt(buf, j).tms, SlotAt(buf, j).tdi, SlotAt(buf, j).tdo >> >>)
           \o Decode(buf, n, j + 1, clocked_only)

\* the cycles decoded from the transfers made and from what is queued
RECURSIVE DecodeSent(_, _, _)
DecodeSent(d, i, clocked_only) ==
    IF i > Len(d.sent)
      THEN Decode(d.cmd_buf, SlotsOf(d.cmd_buf, d.num_bits), 0, clocked_only)
      ELSE Decode(d.sent[i].data, d.sent[i].in_bits, 0, clocked_only)
             \o DecodeSent(d, i + 1, clocked_only)

C28_SampledMatchesRead ==
    io.kind = "xpc" => ~ io.uneven

(***************************************************************************)
(* SpecShort: detect_chain over a Backend whose flush may leave fewer      *)
(* bytes in the buffer than the read asked for.  detect_chain is generic   *)
(* over the Backend trait, and its test of as_chunks is there for a        *)
(* buffer that was not filled.  last notes the bytes asked for and left.   *)
(***************************************************************************)
\* the first k bytes of the segments from i on
RECURSIVE TakeBytes(_, _, _)
TakeBytes(segs, k, i) ==
    IF k = 0 \/ i > Len(segs) THEN << >>
    ELSE << Seg(segs[i].tag, Min(k, segs[i].n)) >>
           \o TakeBytes(segs, k - Min(k, segs[i].n), i + 1)

\* the backend after a flush that left only k bytes in the buffer
Deposit(b, k) == [b EXCEPT !.buf = TakeBytes(@, k, 1)]

\* one iteration of the loop, the flush leaving `got` bytes
ShortRound(got) ==
    /\ pc = "detect_loop"
    /\ \E o \in { round_match(Deposit(round_read(io, ret), got), dev, ret) } : Conclude(o)
    /\ rounds' = rounds + 1
    /\ last' = [op |-> "flush", asked |-> 4 * (Len(ret) + 1), got |-> got]
    /\ UNCHANGED << chain, ncmd, loc, expect, pathVars, notVars, funVars >>

NextShort == DetectBegin \/ (\E got \in 0..(4 * (Len(ret) + 1)) : ShortRound(got))

SpecShort == InitDetect /\ [][NextShort]_vars

\* the last flush left fewer bytes than the round asked for
WasShort == last.op = "flush" /\ last.got < last.asked

type2(op, word_count) ==
    LET header == 2 * Pow2(29)
        opcode == (OpCode[op] % 4) * Pow2(27)
        masked == word_count % Pow2(26)
    IN  header + opcode + masked

\* the word counts tried: every power of two below 2^27 and the number
\* before it, up to the 27 bits of the field
Type2Counts == { Pow2(k) : k \in 0..26 } \cup { Pow2(k) - 1 : k \in 0..27 }

InitType2 ==
    /\ call = "type2"
    /\ arg \in [op : {"Noop", "Read", "Write"}, word_count : Type2Counts]
    /\ out = None
    /\ ParkedPaths /\ ParkedCtl /\ ParkedDet /\ ParkedNot

Type2 ==
    /\ call = "type2" /\ out = None
    /\ out' = Some(type2(arg.op, arg.word_count))
    /\ UNCHANGED << call, arg, pathVars, ctlVars, detVars, notVars >>

NextType2 == Type2

SpecType2 == InitType2 /\ [][NextType2]_vars

\* C30: type2(op, n) has bits [31:29] = 010, bits [28:27] = op and bits
\* [26:0] = n for every op in {Noop, Read, Write} and every n < 2^27: the
\* full 27-bit word count is preserved.
C30_Type2Fields ==
    (call = "type2" /\ out # None) =>
        /\ Field(out[1], 31, 29) = 2
        /\ Field(out[1], 28, 27) = OpCode[arg.op]
        /\ Field(out[1], 26, 0) = arg.word_count

(***************************************************************************)
(* SpecXilinx: the protocol layer of nafa-xilinx on a Controller.  call is *)
(* the function called and arg its arguments; every batch it hands to      *)
(* Controller::run is run command by command through run_command.  out.run *)
(* counts the batches that returned, out.issued lists the commands run()   *)
(* took from the batch under way (or the last one), out.ret is the length  *)
(* of the slice the last run() returned and out.slrs the entries pushed by *)
(* read_slrs.                                                              *)
(***************************************************************************)
\* _32bit/commands.rs
CFG_OUT == 4
CFG_IN == 5
JSTART == 12
JSHUTDOWN == 13
XADC_DRP == 55
FUSE_DNA == 50
IDCODE == 9

\* "they have an IRLEN of 12 instead of 6"
ZynqIrLen == 12

\* const NOOPS: u32 = 0b_100100_100100_100100_100100_100100
NOOPS == 613566756

\* the 6-bit field of x for SLR k
Slot(x, k) == (x \div Pow2(6 * k)) % 64

\* shift_for_slr; the assert!(active_slr <= 4) is a guard of the callers here
shift_for_slr(active_slr, inst) ==
    NOOPS - Slot(NOOPS, active_slr) * Pow2(6 * active_slr)
          + (inst % 64) * Pow2(6 * active_slr)

\* a shift_for_slr that leaves the other fields empty
shift_for_slr_zero_fill(active_slr, inst) == (inst % 64) * Pow2(6 * active_slr)

\* as_flattened
as_flattened(x) == [i \in 1..(4 * Len(x)) |-> x[((i - 1) \div 4) + 1][((i - 1) % 4) + 1]]

\* Type1::SYNC and Type1::NOOP
Type1SYNC == W32(43673, 21862)
Type1NOOP == W32(8192, 0)

\* bitstream_to_wire_order([SYNC, NOOP, reg.to_raw(), NOOP, NOOP]).as_flattened()
tiny_bitstream(reg) ==
    as_flattened(bitstream_to_wire_order(
      << Type1SYNC, Type1NOOP, U32(Type1_to_raw(reg)), Type1NOOP, Type1NOOP >>))

\* Bytes::from(Words32(n)): value.0 * 4
BytesFromWords32(n) == n * 4

\* a read_device_register that asks for word_count bytes
read_device_register_short(active_slr, reg) ==
    << CmdIr(shift_for_slr(active_slr, CFG_IN)),
       CmdDrTx(tiny_bitstream(reg)),
       CmdIr(shift_for_slr(active_slr, CFG_OUT)),
       CmdDrRx(reg.word_count) >>

\* the batch of _32bit::read_device_register
read_device_register(active_slr, reg) ==
    << CmdIr(shift_for_slr(active_slr, CFG_IN)),
       CmdDrTx(tiny_bitstream(reg)),
       CmdIr(shift_for_slr(active_slr, CFG_OUT)),
       CmdDrRx(BytesFromWords32(reg.word_count)) >>

\* the batch of _32bit::read_jtag_register
read_jtag_register(active_slr, inst, len) ==
    << CmdIr(shift_for_slr(active_slr, inst)), CmdDrRx(len) >>

\* read_device_register_word: read_device_register_sized::<4>, a read of
\* Words32(N / 4) at addr
read_device_register_word(active_slr, addr) ==
    read_device_register(active_slr, [op |-> "Read", addr |-> addr, word_count |-> 4 \div 4])

\* the fields of RegistersPerSlr in the order the closure of read_registers
\* evaluates them: Ctl0, Stat, Cor0, Idcode, Axss, Cor1, Wbstar, Timer,
\* Bootsts, Ctl1, Bspi
RegistersPerSlr == << 5, 7, 9, 12, 13, 14, 16, 17, 22, 24, 31 >>

\* the reads of one SLR, one batch each
registers_of_slr(slr) ==
    [i \in 1..Len(RegistersPerSlr) |-> read_device_register_word(slr, RegistersPerSlr[i])]

\* a read_slrs that walks the SLRs from the last to the first
read_slrs_descending(num_slr) == [i \in 1..num_slr |-> num_slr - i]

\* read_slrs: `for slr in 0..num_slr`, the SLRs in the order f is called
read_slrs(num_slr) == [i \in 1..num_slr |-> i - 1]

\* the batches of read_registers: the closure's reads for each SLR of read_slrs
read_registers(num_slr) ==
    LET order == read_slrs(num_slr)
        n == Len(RegistersPerSlr)
    IN  [k \in 1..(num_slr * n) |->
           registers_of_slr(order[((k - 1) \div n) + 1])[((k - 1) % n) + 1]]

\* zynq_32::duplicate
duplicate(cmd) == (cmd % 64) * 64 + (cmd % 64)

\* the batch of zynq_32::read_device_register: `commands::CFG_IN as _`
zynq_read_device_register(reg) ==
    << CmdIr(CFG_IN),
       CmdDrTx(tiny_bitstream(reg)),
       CmdIr(CFG_OUT),
       CmdDrRx(BytesFromWords32(reg.word_count)) >>

\* the batch of zynq_32::read_jtag_register
zynq_read_jtag_register(inst, len) == << CmdIr(duplicate(inst)), CmdDrRx(len) >>

\* a program that starts the device before the bitstream is sent
program_starts_early(data) ==
    << CmdIr(JSHUTDOWN), CmdIr(CFG_IN), CmdIr(JSTART), CmdDrTxNotify(data) >>

\* the batch of program
program(data) ==
    << CmdIr(JSHUTDOWN), CmdIr(CFG_IN), CmdDrTxNotify(data), CmdIr(JSTART) >>

\* drp::Command::to_bits: to_bits_raw(cmd as _, addr as _, data); the fields
\* do not overlap, so `|` adds them
drp_to_bits(c) == (c.cmd % 16) * Pow2(26) + (c.addr % 1024) * Pow2(16) + c.data

\* u32::to_le_bytes of a word below 2^31
to_le_bytes(x) ==
    << x % 256, (x \div 256) % 256, (x \div 65536) % 256, (x \div 16777216) % 256 >>

\* a read_xadc that does not wait between two DRP commands
read_xadc_no_idle(active_slr, regs) ==
    << CmdIr(shift_for_slr(active_slr, XADC_DRP)) >>
      \o [k \in 1..Len(regs) |-> CmdDrTxRx(to_le_bytes(drp_to_bits(regs[k])))]
      \o << CmdDrRx(4) >>

\* the batch of read_xadc: start, then dr_txrx(c) and between for each
\* command, then after
read_xadc(active_slr, regs) ==
    << CmdIr(shift_for_slr(active_slr, XADC_DRP)) >>
      \o [k \in 1..(2 * Len(regs)) |->
            IF k % 2 = 1 THEN CmdDrTxRx(to_le_bytes(drp_to_bits(regs[(k + 1) \div 2])))
            ELSE CmdIdle(10)]
      \o << CmdDrRx(4) >>

\* the batches a call hands to Controller::run, in order
XPlan(c, a) ==
    CASE c = "read_device_register" ->
           << read_device_register(a.slr, a.reg) >>
      [] c = "read_registers" ->
           read_registers(a.num_slr)
      [] c = "program" ->
           << program(a.data) >>
      [] c = "read_xadc" ->
           << read_xadc(a.slr, a.regs) >>
      [] c = "zynq_read_device_register" ->
           << zynq_read_device_register(a.reg) >>
      [] c = "zynq_read_jtag_register" ->
           << zynq_read_jtag_register(a.inst, a.len) >>
      [] c = "read_jtag_register" ->
           << read_jtag_register(a.slr, a.inst, a.len) >>

\* the entries read_slrs has pushed when `done` batches have returned
XPushed(c, a, done) ==
    IF c = "read_registers" THEN done \div Len(RegistersPerSlr) ELSE 0

\* the batch under way
XBatch == XPlan(call, arg)[out.run + 1]

NoOut == [run |-> 0, issued |-> << >>, ret |-> None, slrs |-> 0]

\* the longest bitstream programmed
MaxData == 3

\* the most DRP commands of one read_xadc
MaxRegs == 2

\* drp::Command: a read of Temperature, a read of VccInt, a write of 0x1234
\* to configuration register 0x40
DrpCommands ==
    { [cmd |-> 1, addr |-> 0, data |-> 0], [cmd |-> 1, addr |-> 1, data |-> 0],
      [cmd |-> 2, addr |-> 64, data |-> 4660] }

\* the targets: one SLR, a Zynq (IR of 12), three SLRs, one SLR in a chain
XChains ==
    { Chain(<< >>, 6, << >>), Chain(<< >>, 12, << >>),
      Chain(<< >>, 18, << >>), Chain(<< 6 >>, 6, << 12 >>) }

\* the SLRs of a target whose IR has irlen bits
Slrs(irlen) == 0..((irlen \div 6) - 1)

XArgs(c, irlen) ==
    CASE c = "read_device_register" ->
           [slr : Slrs(irlen),
            reg : [op : {"Read"}, addr : {7, 12}, word_count : {0, 1, 2}]]
      [] c = "read_jtag_register" ->
           [slr : Slrs(irlen), inst : {FUSE_DNA}, len : {8}]
      [] c = "read_registers" ->
           [num_slr : {irlen \div 6}]
      [] c = "read_xadc" ->
           [slr : Slrs(irlen), regs : Seqs(DrpCommands, MaxRegs)]
      [] c = "program" ->
           [data : { Payload(n) : n \in 0..MaxData } \cup { << 1, 2, 3 >> }]
      [] c = "zynq_read_device_register" ->
           IF irlen # ZynqIrLen THEN { }
           ELSE [reg : [op : {"Read"}, addr : {7, 12}, word_count : {1, 2}]]
      [] c = "zynq_read_jtag_register" ->
           IF irlen # ZynqIrLen THEN { }
           ELSE [inst : {IDCODE, FUSE_DNA}, len : {4, 12}]

XCalls ==
    { "read_device_register", "read_jtag_register", "read_registers", "program", "read_xadc",
      "zynq_read_device_register", "zynq_read_jtag_register" }

InitXilinx ==
    /\ chain \in XChains
    /\ pc = "new"
    /\ ncmd = 0
    /\ loc = NoLocals
    /\ \E k \in {"fake", "ftdi", "xpc"}, checked \in BOOLEAN : io = NewIo(k, checked)
    /\ tap \in State
    /\ last = CmdIdle(0)
    /\ expect = << >>
    /\ call \in XCalls
    /\ arg \in XArgs(call, chain.irlen)
    /\ out = NoOut
    /\ ParkedPaths
    /\ ParkedDet
    /\ ParkedNot

\* the head of Controller::run on the next batch of the call
XBegin ==
    /\ out.run < Len(XPlan(call, arg))
    /\ RunBegin

\* run() takes the next command of the batch
XCommand ==
    /\ pc = "run"
    /\ ncmd < Len(XBatch)
    /\ LET c == XBatch[ncmd + 1]
       IN  /\ io' = run_command([OpenWindow(io) EXCEPT !.tag = ncmd + 1,
                                                       !.noisy = notify # NULL /\ c.notify],
                                 c, chain.irlen, loc)
           /\ last' = c
           /\ expect' = AddSeg(expect, ncmd + 1, RxLen(c))
           /\ out' = [out EXCEPT !.issued = IF ncmd = 0 THEN << c >> ELSE Append(@, c)]
    /\ tap' = Replay(tap, io'.wire, 1)
    /\ pc' = IF io'.panicked THEN "panicked" ELSE IF io'.failed THEN "run_err" ELSE "run"
    /\ ncmd' = ncmd + 1
    /\ due' = due + (IF XBatch[ncmd + 1].notify THEN XBatch[ncmd + 1].len ELSE 0)
    /\ UNCHANGED << chain, loc, call, arg, pathVars, detVars, scopeVars >>

\* the batch is exhausted: run() closes and returns &self.buf; read_slrs
\* pushes an entry when the closure of an SLR has made its last read
XEnd ==
    /\ pc = "run"
    /\ ncmd = Len(XBatch)
    /\ io' = run_close([OpenWindow(io) EXCEPT !.noisy = notify # NULL /\ last.notify])
    /\ tap' = Replay(tap, io'.wire, 1)
    /\ pc' = IF io'.failed THEN "run_err" ELSE "ready"
    /\ out' = IF io'.failed THEN out
              ELSE [out EXCEPT !.run = @ + 1,
                               !.ret = Some(SegBytes(io'.buf, 1)),
                               !.slrs = XPushed(call, arg, out.run + 1)]
    /\ UNCHANGED << chain, ncmd, loc, last, expect, call, arg, pathVars, detVars, notVars >>

NextXilinx == New \/ XBegin \/ XCommand \/ XEnd

SpecXilinx == InitXilinx /\ [][NextXilinx]_vars

\* the 20 bytes of SYNC, NOOP, a word, NOOP, NOOP in wire order
TinyWire(word) ==
    << 85, 153, 170, 102 >> \o << 4, 0, 0, 0 >> \o word \o << 4, 0, 0, 0 >> \o << 4, 0, 0, 0 >>

\* C31: read_device_register issues, in a single run() and in this order,
\* IR <- CFG_IN, a DR transmit of the five wire-ordered words {SYNC, NOOP,
\* the Type-1 packet, NOOP, NOOP} (20 bytes), IR <- CFG_OUT, and a DR
\* receive; it returns exactly 4 * word_count bytes.
C31_ReadDeviceRegister ==
    (call = "read_device_register" /\ out.run = 1) =>
      /\ Len(XPlan(call, arg)) = 1
      /\ Len(out.issued) = 4
      /\ out.issued[1].op = "IrTxBits"
      /\ Slot(out.issued[1].val, arg.slr) = CFG_IN
      /\ out.issued[2].op = "DrTx"
      /\ Len(out.issued[2].tdi) = 20
      /\ out.issued[2].tdi = TinyWire(SubSeq(out.issued[2].tdi, 9, 12))
      /\ decode_word(SubSeq(out.issued[2].tdi, 9, 12)) = U32(Type1_to_raw(arg.reg))
      /\ out.issued[3].op = "IrTxBits"
      /\ Slot(out.issued[3].val, arg.slr) = CFG_OUT
      /\ out.issued[4] = CmdDrRx(4 * arg.reg.word_count)
      /\ out.ret = Some(4 * arg.reg.word_count)

\* a register of two words has been read on the third SLR
C31_Witness ==
    /\ call = "read_device_register" /\ out.run = 1 /\ pc = "ready"
    /\ arg.slr = 2 /\ arg.reg.word_count = 2
    /\ out.ret = Some(8)

\* CTL0, STAT, COR0, IDCODE, AXSS, COR1, WBSTAR, TIMER, BOOTSTS, CTL1, BSPI
\* by their addresses
SnapshotOrder == << 5, 7, 9, 12, 13, 14, 16, 17, 22, 24, 31 >>

\* the commands of the batch that receive data
Receives(cmds) == { i \in 1..Len(cmds) : cmds[i].op \in { "DrRx", "DrTxRx" } }

\* the words of a transmit that are Type-1 reads ([31:29] = 001, [28:27] = 01)
ReadPackets(tdi) ==
    { w \in 1..(Len(tdi) \div 4) :
        LET word == decode_word(SubSeq(tdi, 4 * w - 3, 4 * w))
        IN  word[32] = 0 /\ word[31] = 0 /\ word[30] = 1 /\ word[29] = 0 /\ word[28] = 1 }

\* C32: the info snapshot reads every configuration register (CTL0, STAT,
\* COR0, IDCODE, AXSS, COR1, WBSTAR, TIMER, BOOTSTS, CTL1, BSPI) in its own
\* run() batch containing exactly one Type-1 read packet, for each SLR
\* 0..n-1 in increasing order; no batch ever contains two register reads,
\* and the snapshot has exactly n per-SLR entries.
C32_OneRegisterPerRun ==
    call = "read_registers" =>
      /\ Cardinality(Receives(out.issued)) <= 1
      /\ (pc = "ready" /\ out.run >= 1) =>
           LET k == out.run - 1
               slr == k \div 11
               addr == SnapshotOrder[(k % 11) + 1]
               tx == { i \in 1..Len(out.issued) : out.issued[i].op = "DrTx" }
           IN  /\ slr < arg.num_slr
               /\ Cardinality(tx) = 1
               /\ \A i \in tx :
                    /\ Cardinality(ReadPackets(out.issued[i].tdi)) = 1
                    /\ decode_word(SubSeq(out.issued[i].tdi, 9, 12))
                         = U32(Type1_to_raw([op |-> "Read", addr |-> addr, word_count |-> 1]))
               /\ Slot(out.issued[1].val, slr) = CFG_IN
               /\ Cardinality(Receives(out.issued)) = 1
               /\ out.ret = Some(4)
               /\ out.slrs = out.run \div 11
               /\ out.run <= 11 * arg.num_slr
               /\ (out.run = Len(XPlan(call, arg)) => out.slrs = arg.num_slr)

\* the snapshot of a device of three SLRs is complete
C32_Witness ==
    /\ call = "read_registers" /\ arg.num_slr = 3
    /\ pc = "ready" /\ out.run = 33 /\ out.slrs = 3

\* the IR commands of the batch
IrIssued == { i \in 1..Len(out.issued) : out.issued[i].op = "IrTxBits" }

\* C33: for Zynq UltraScale+ targets, every IR value that the zynq_32
\* protocol layer issues carries the 6-bit instruction replicated in both
\* 6-bit fields of the 12-bit IR (value = inst << 6 | inst), for JTAG
\* data-register reads and for the CFG_IN / CFG_OUT instructions of
\* configuration-register reads alike.
C33_ZynqIrReplicated ==
    call \in { "zynq_read_device_register", "zynq_read_jtag_register" } =>
      \A i \in IrIssued :
        /\ out.issued[i].val < Pow2(ZynqIrLen)
        /\ Slot(out.issued[i].val, 1) = Slot(out.issued[i].val, 0)

\* C34: program(data) issues, in a single run() and in this order,
\* IR <- JSHUTDOWN, IR <- CFG_IN, one DR transmit carrying all bytes of data
\* unchanged and in order, and IR <- JSTART; the notify flag is set on the
\* DR transmit only, and JSTART is never issued before the whole bitstream
\* has been queued.
C34_ProgramOrder ==
    call = "program" =>
      /\ \A i \in IrIssued :
           out.issued[i].val = JSTART =>
             \E j \in 1..(i - 1) : out.issued[j].op = "DrTx" /\ out.issued[j].tdi = arg.data
      /\ out.run = 1 =>
           /\ Len(XPlan(call, arg)) = 1
           /\ [i \in 1..Len(out.issued) |-> out.issued[i].op]
                = << "IrTxBits", "IrTxBits", "DrTx", "IrTxBits" >>
           /\ out.issued[1].val = JSHUTDOWN
           /\ out.issued[2].val = CFG_IN
           /\ out.issued[3].tdi = arg.data
           /\ out.issued[4].val = JSTART
           /\ [i \in 1..Len(out.issued) |-> out.issued[i].notify]
                = << FALSE, FALSE, TRUE, FALSE >>
           /\ due = Len(arg.data)

\* a bitstream of three bytes has been programmed
C34_Witness ==
    /\ call = "program" /\ pc = "ready" /\ out.run = 1
    /\ arg.data = << 1, 2, 3 >>

\* the clocked cycles of a window
Clocked(w) == { k \in 1..Len(w) : w[k].tck /\ w[k].n > 0 }

\* the four bytes of DRP command c on the wire, the low byte first
DrpWire(c) == << c.data % 256, c.data \div 256, c.addr % 256, 4 * c.cmd + (c.addr \div 256) >>

\* C35: read_xadc with n DRP commands issues, in a single run():
\* IR <- XADC_DRP once, then for each command in submission order a 4-byte
\* DR transmit+receive of its packed word followed by an idle of 10 bytes
\* (80 TCK cycles in Run-Test-Idle with TDI high), then one final 4-byte DR
\* receive; it returns exactly 4(n+1) bytes.
C35_ReadXadc ==
    call = "read_xadc" =>
      /\ (pc = "run" /\ last.op = "Idle" /\ ncmd > 0) =>
           /\ tap = "RunTestIdle"
           /\ \A k \in Clocked(io.wire) : ~io.wire[k].tms /\ io.wire[k].tdi
           /\ SumRange([k \in 1..Len(io.wire) |->
                          IF io.wire[k].tck THEN io.wire[k].n ELSE 0], 1, Len(io.wire)) = 80
      /\ out.run = 1 =>
           LET n == Len(arg.regs)
           IN  /\ Len(XPlan(call, arg)) = 1
               /\ Len(out.issued) = 2 * n + 2
               /\ out.issued[1].op = "IrTxBits"
               /\ Slot(out.issued[1].val, arg.slr) = XADC_DRP
               /\ Cardinality(IrIssued) = 1
               /\ \A k \in 1..n :
                    /\ out.issued[2 * k] = CmdDrTxRx(DrpWire(arg.regs[k]))
                    /\ out.issued[2 * k + 1] = CmdIdle(10)
               /\ out.issued[2 * n + 2] = CmdDrRx(4)
               /\ out.ret = Some(4 * (n + 1))

\* two DRP commands have been sent and twelve bytes returned
C35_Witness ==
    /\ call = "read_xadc" /\ pc = "ready" /\ out.run = 1
    /\ Len(arg.regs) = 2 /\ arg.regs[1] # arg.regs[2]
    /\ out.ret = Some(12)

(***************************************************************************)
(* SpecCables: cables::init on a USB device.  arg is the device's VID:PID, *)
(* out.i the entry of KNOWN the loop is at, out.errs the errors pushed so  *)
(* far (the name of the cable each one wraps), out.tried the matching      *)
(* entries whose body has run, out.ret the value returned.  Whether an     *)
(* open() or a cable's init succeeds is the environment's choice.          *)
(***************************************************************************)
KNOWN ==
    << [vid |-> \H0403, pid |-> \HCFF8, name |-> "amontec"],
       [vid |-> \H15BA, pid |-> \H002B, name |-> "arm-usb-ocd-h"],
       [vid |-> \H0403, pid |-> \H6010, name |-> "bbv2"],
       [vid |-> \H0403, pid |-> \H6010, name |-> "bbv2_2"],
       [vid |-> \H0403, pid |-> \H8350, name |-> "cm1"],
       [vid |-> \H0403, pid |-> \H6010, name |-> "dlp2232h"],
       [vid |-> \H0403, pid |-> \H6010, name |-> "ft2232test"],
       [vid |-> \H0403, pid |-> \H6011, name |-> "ft4232h"],
       [vid |-> \H0403, pid |-> \H6010, name |-> "ftdijtag"],
       [vid |-> \H0403, pid |-> \H6010, name |-> "ikda"],
       [vid |-> \H0403, pid |-> \H6014, name |-> "jtaghs2"],
       [vid |-> \H0403, pid |-> \H6010, name |-> "l_motctl"],
       [vid |-> \H0403, pid |-> \H6010, name |-> "llbbc"],
       [vid |-> \H0403, pid |-> \H6010, name |-> "llbus"],
       [vid |-> \H0403, pid |-> \H6010, name |-> "llif"],
       [vid |-> \H2A19, pid |-> \H1009, name |-> "mimas_a7"],
       [vid |-> \H0403, pid |-> \H6010, name |-> "nexys4"],
       [vid |-> \H15B1, pid |-> \H0003, name |-> "olimex"],
       [vid |-> \H9E88, pid |-> \H9E8F, name |-> "plugjtag"],
       [vid |-> \H0403, pid |-> \H8A98, name |-> "tumpa"],
       [vid |-> \H0403, pid |-> \HBDC8, name |-> "turtelizer"],
       [vid |-> \H03FD, pid |-> \H0008, name |-> "xpc"] >>

\* a device no entry of KNOWN matches
UnknownUsb == [vid |-> \H1234, pid |-> \H5678]

UsbDevices == { [vid |-> KNOWN[i].vid, pid |-> KNOWN[i].pid] : i \in 1..Len(KNOWN) } \cup { UnknownUsb }

\* cable.vid == device.vendor_id() && cable.pid == device.product_id()
Matches(cable, device) == cable.vid = device.vid /\ cable.pid = device.pid

\* device.open().await.map_err(|x| vec![x.into()])?
open_failed(errs) == << "open" >>

InitCables ==
    /\ call = "init"
    /\ arg \in UsbDevices
    /\ out = [i |-> 1, errs |-> << >>, tried |-> << >>, ret |-> None]
    /\ ParkedPaths /\ ParkedCtl /\ ParkedDet /\ ParkedNot

CableAt == call = "init" /\ out.ret = None /\ out.i <= Len(KNOWN)

\* the entry does not match the device
CableSkip ==
    /\ CableAt /\ ~Matches(KNOWN[out.i], arg)
    /\ out' = [out EXCEPT !.i = @ + 1]
    /\ UNCHANGED << call, arg, pathVars, ctlVars, detVars, notVars >>

\* the entry matches and open() fails: `?` returns
CableOpenFails ==
    /\ CableAt /\ Matches(KNOWN[out.i], arg)
    /\ out' = [out EXCEPT !.tried = Append(@, KNOWN[out.i].name),
                          !.ret = Some([ok |-> FALSE, backend |-> "", errs |-> open_failed(out.errs)])]
    /\ UNCHANGED << call, arg, pathVars, ctlVars, detVars, notVars >>

\* the entry matches, open() and (cable.init)(device) succeed
CableInitOk ==
    /\ CableAt /\ Matches(KNOWN[out.i], arg)
    /\ out' = [out EXCEPT !.tried = Append(@, KNOWN[out.i].name),
                          !.ret = Some([ok |-> TRUE, backend |-> KNOWN[out.i].name, errs |-> << >>])]
    /\ UNCHANGED << call, arg, pathVars, ctlVars, detVars, notVars >>

\* the entry matches, open() succeeds and (cable.init)(device) fails
CableInitFails ==
    /\ CableAt /\ Matches(KNOWN[out.i], arg)
    /\ out' = [out EXCEPT !.tried = Append(@, KNOWN[out.i].name),
                          !.errs = Append(@, KNOWN[out.i].name),
                          !.i = @ + 1]
    /\ UNCHANGED << call, arg, pathVars, ctlVars, detVars, notVars >>

\* the table is exhausted: Err(errs)
CableExhausted ==
    /\ call = "init" /\ out.ret = None /\ out.i > Len(KNOWN)
    /\ out' = [out EXCEPT !.ret = Some([ok |-> FALSE, backend |-> "", errs |-> out.errs])]
    /\ UNCHANGED << call, arg, pathVars, ctlVars, detVars, notVars >>

NextCables == CableSkip \/ CableOpenFails \/ CableInitOk \/ CableInitFails \/ CableExhausted

SpecCables == InitCables /\ [][NextCables]_vars

\* the entries of KNOWN before entry i that match the device
MatchingBefore(i) == { j \in 1..(i - 1) : Matches(KNOWN[j], arg) }

\* C36: cables::init returns the backend of the first table entry, in table
\* order, whose VID:PID matches the device and whose initialisation
\* succeeds, without trying later entries; if no matching entry succeeds,
\* the returned error list contains exactly one error for each matching
\* entry that was tried, none of them dropped.
C36_FirstCableOrAllErrors ==
    (call = "init" /\ IsSome(out.ret)) =>
      IF out.ret[1].ok
        THEN /\ Matches(KNOWN[out.i], arg)
             /\ out.ret[1].backend = KNOWN[out.i].name
             /\ Len(out.tried) = Cardinality(MatchingBefore(out.i)) + 1
        ELSE Len(out.ret[1].errs) = Len(out.tried)

(***************************************************************************)
(* SpecRace: async_main with a progress bar.  The runner (the future of    *)
(* with_notifications around run(command)) and the progress watcher are    *)
(* the two halves of runner.race(progress): each poll of the race polls    *)
(* one of them, then, if it was pending, the other, in an order the race   *)
(* picks anew each time; the first that is ready ends the race and the     *)
(* other is dropped.  arg is what the command does: the awaits at which    *)
(* it is pending before it returns, and its result.  out holds the two     *)
(* atomics (notify as counter, done), the position shown by the bar, what  *)
(* the runner has left to do, where each future stands, whose turn it is   *)
(* in the poll under way and the value the race returned.                  *)
(***************************************************************************)
\* the most awaits at which the command is pending
MaxAwaits == 3

\* the bytes a step of the command adds to the counter
Chunks == { 0, 1, 2 }

InitRace ==
    /\ call = "async_main"
    /\ arg \in [awaits : 0..MaxAwaits, result : { "ok", "err" }]
    /\ out = [counter |-> 0, done |-> FALSE, shown |-> 0, left |-> arg.awaits,
              runner |-> "running", watcher |-> "loop",
              phase |-> "idle", order |-> "none", outcome |-> None]
    /\ ParkedPaths /\ ParkedCtl /\ ParkedDet /\ ParkedNot

\* the future polled next in the poll of the race under way
Turn ==
    CASE out.phase = "first" -> out.order
      [] out.phase = "second" -> (IF out.order = "runner" THEN "watcher" ELSE "runner")
      [] OTHER -> "none"

\* the poll moves on after a future that was pending
Pending(o) == [o EXCEPT !.phase = IF o.phase = "first" THEN "second" ELSE "idle"]

\* a future was ready: the race returns its value
Ready(o, who, value) == [o EXCEPT !.phase = "over", !.outcome = Some([by |-> who, value |-> value])]

\* a runner that is pending once more between done.store and its return
runner_returns_after_yield(o, result) ==
    IF o.runner = "running"
      THEN Pending([o EXCEPT !.done = TRUE, !.runner = "closing"])
      ELSE Ready([o EXCEPT !.runner = "returned"], "runner", result)

\* the last poll of the runner: run() has returned r, done.store(true), the
\* closure returns r, with_notifications restores notify and returns r
runner_returns(o, result) ==
    Ready([o EXCEPT !.done = TRUE, !.runner = "returned"], "runner", result)

\* the race polls its halves in a fresh order
RacePoll ==
    /\ call = "async_main" /\ out.phase = "idle"
    /\ \E first \in { "runner", "watcher" } :
         out' = [out EXCEPT !.phase = "first", !.order = first]
    /\ UNCHANGED << call, arg, pathVars, ctlVars, detVars, notVars >>

\* the runner is polled and the command is pending at an await, after
\* having added to the counter
RunnerStep ==
    /\ call = "async_main" /\ Turn = "runner"
    /\ out.runner = "running" /\ out.left > 0
    /\ \E n \in Chunks :
         out' = Pending([out EXCEPT !.left = @ - 1, !.counter = @ + n])
    /\ UNCHANGED << call, arg, pathVars, ctlVars, detVars, notVars >>

\* the runner is polled and the command returns
RunnerReturn ==
    /\ call = "async_main" /\ Turn = "runner"
    /\ out.left = 0
    /\ out' = runner_returns(out, arg.result)
    /\ UNCHANGED << call, arg, pathVars, ctlVars, detVars, notVars >>

\* the watcher is polled: `while !done.load(Acquire)`, then either
\* pb.set_position(notify.load(Acquire)) and yield_now(), or Ok(())
WatcherPoll ==
    /\ call = "async_main" /\ Turn = "watcher"
    /\ out' = IF out.done THEN Ready([out EXCEPT !.watcher = "returned"], "watcher", "ok")
              ELSE Pending([out EXCEPT !.shown = out.counter])
    /\ UNCHANGED << call, arg, pathVars, ctlVars, detVars, notVars >>

NextRace == RacePoll \/ RunnerStep \/ RunnerReturn \/ WatcherPoll

SpecRace == InitRace /\ [][NextRace]_vars

\* C38: when the progress watcher task is raced against the command runner,
\* under every interleaving of the two tasks the outcome (success or the
\* propagated error) is the runner's: the watcher only reads the counter
\* and the done flag, can finish only after the runner has set done, and
\* never changes the Controller state or the result.
C38_OutcomeIsRunners ==
    /\ [](call = "async_main" =>
            /\ IsSome(out.outcome) => out.outcome[1] = [by |-> "runner", value |-> arg.result]
            /\ out.watcher = "returned" => out.done)
    /\ [][(call = "async_main" /\ Turn = "watcher") =>
            /\ out'.counter = out.counter /\ out'.done = out.done
            /\ out'.left = out.left /\ out'.runner = out.runner
            /\ (IsSome(out'.outcome) => out'.outcome[1].value = arg.result)
            /\ UNCHANGED << ctlVars, arg >>]_vars

\* the command failed after the watcher had been polled first and had shown
\* a counter the runner had raised
C38_Witness ==
    /\ call = "async_main" /\ arg.result = "err"
    /\ IsSome(out.outcome) /\ out.order = "watcher" /\ out.phase = "over"
    /\ out.shown > 0 /\ out.done

(***************************************************************************)
(* SpecSession: get_controller and what follows it on one cable:           *)
(* detect_chain (with the Zynq wake-up routine), the choice of the target, *)
(* Controller::new, then batches of commands.  tap is the TAP state        *)
(* obtained by replaying every cycle handed to the cable since the start.  *)
(***************************************************************************)
\* the commands of a batch: one of each kind
SessionCommands ==
    { CmdIr(9), CmdDrTx(Payload(2)), CmdDrRx(1), CmdDrTxRx(Payload(1)), CmdIdle(1) }

\* get_controller after detect_chain has returned: the match on the devices
\* and the index, the arguments of Controller::new
GetController ==
    /\ pc = "detect_done"
    /\ \E jtag_idx \in { None } \cup { Some(k) : k \in 0..MaxChain } :
         LET t == select_target(ret, jtag_idx)
         IN  IF t.kind = "ok"
               THEN /\ pc' = "new"
                    /\ chain' = Chain([i \in 1..Len(t.before) |-> t.before[i].irlen],
                                      t.device.info.irlen,
                                      [i \in 1..Len(t.after) |-> t.after[i].irlen])
               ELSE /\ pc' = "no_target"
                    /\ chain' = chain
    /\ UNCHANGED << ncmd, loc, io, tap, last, expect, pathVars, detVars, notVars, funVars >>

NextSession ==
    \/ DetectBegin \/ DetectRound \/ GetController
    \/ New \/ RunBegin \/ (\E c \in SessionCommands : RunCommand(c)) \/ RunEnd

SpecSession == InitDetect /\ [][NextSession]_vars

\* the clocked cycles of a window
Total(w) == SumRange([k \in 1..Len(w) |-> IF w[k].tck THEN w[k].n ELSE 0], 1, Len(w))

\* the cycles of window w clocked in state `target`, the TAP in s before w
InState(s, w, target) == Total(CyclesIn(s, w, target))

\* the cycles a transfer spends outside its shift state when its path in is
\* clocked from `from`, its path out from `shift`, and the first cycle of
\* the path out is the last cycle of the shift
Outside(from, shift, to) == PATHS[from][shift].len + PATHS[shift][to].len - 1

\* the cycles of w clocked in Shift-IR or Shift-DR are all but `outside`
ShiftsAllBut(s, w, outside) ==
    InState(s, w, "ShiftIR") + InState(s, w, "ShiftDR") = Total(w) - outside

\* the cycles the wake-up routine spends outside Shift-IR and Shift-DR when
\* each of its paths is clocked in the state it starts from
WakeUpOutside ==
    PathRESET.len
      + Outside("TestLogicReset", "ShiftIR", "RunTestIdle")
      + Outside("RunTestIdle", "ShiftDR", "TestLogicReset")
      + Outside("TestLogicReset", "ShiftDR", "TestLogicReset")
      + Outside("TestLogicReset", "ShiftDR", "RunTestIdle")

\* the TMS levels of RESET (twice when `twice`) then Test-Logic-Reset to
\* Run-Test-Idle
Opening(twice) ==
    PathTms(PathTms(IF twice THEN PathTms(<< >>, PathRESET, 0) ELSE << >>, PathRESET, 0),
            PATHS["TestLogicReset"]["RunTestIdle"], 0)

\* C39: every TMS path that Controller::new, run(), detect_chain and the
\* Zynq wake-up routine take from PATHS[from][to] is clocked while the
\* replayed TAP state is exactly `from` (including the wake-up's
\* Shift-DR -> Test-Logic-Reset and Test-Logic-Reset -> Shift-DR pairs), so
\* every before/after path ends in the state it was computed for and data
\* is only ever shifted while the TAP is in Shift-IR or Shift-DR.
C39_PathsFromTheirState ==
    [][/\ (pc = "new" /\ pc' = "ready") =>
            /\ TmsOnly(io'.wire) = Opening(FALSE)
            /\ Replay(tap, PathTms(<< >>, PathRESET, 0), 1) = "TestLogicReset"
            /\ tap' = "RunTestIdle"
       /\ (pc = "detect" /\ pc' = "detect_loop") =>
            /\ TmsOnly(io'.wire) = Opening(TRUE)
            /\ Replay(tap, PathTms(<< >>, PathRESET, 0), 1) = "TestLogicReset"
            /\ tap' = "RunTestIdle"
       /\ (pc = "detect_loop" /\ rounds' = rounds + 1 /\ ~io'.panicked) =>
            /\ tap = "RunTestIdle" /\ tap' = "RunTestIdle"
            /\ ShiftsAllBut(tap, io'.wire,
                 Outside("RunTestIdle", "ShiftDR", "RunTestIdle")
                   + (IF dev'.awake /\ ~dev.awake THEN WakeUpOutside ELSE 0))
            /\ (~dev'.awake \/ dev.awake) => InState(tap, io'.wire, "ShiftIR") = 0
       /\ (pc = "run" /\ ncmd' = ncmd + 1 /\ ~io'.panicked /\ last'.op # "Idle") =>
            /\ tap = "RunTestIdle" /\ tap' = "RunTestIdle"
            /\ IF last'.op = "IrTxBits"
                 THEN /\ InState(tap, io'.wire, "ShiftIR")
                           = Total(io'.wire) - Outside("RunTestIdle", "ShiftIR", "RunTestIdle")
                      /\ InState(tap, io'.wire, "ShiftDR") = 0
                 ELSE /\ InState(tap, io'.wire, "ShiftDR")
                           = Total(io'.wire) - Outside("RunTestIdle", "ShiftDR", "RunTestIdle")
                      /\ InState(tap, io'.wire, "ShiftIR") = 0
       /\ (pc = "run" /\ pc' = "ready") => tap = "RunTestIdle" /\ tap' = "RunTestIdle"
      ]_vars

\* a Zynq was woken up during detection and the Controller made for it has
\* run an IR command after a DR command
C39_Witness ==
    /\ dev.awake /\ Len(ret) > 0
    /\ pc = "run" /\ ncmd = 2 /\ last.op = "IrTxBits"
    /\ tap = "RunTestIdle"

\* C40: during a successful run() the TAP enters Test-Logic-Reset only in
\* the closing Path::IDLE sequence (111110), never while the commands of the
\* batch are being processed, and it does so at the end of every run()
\* before settling in Run-Test-Idle; no instruction loaded by one run() is
\* therefore still in the IR when the next run() starts.
C40_ResetOnlyAtClose ==
    [][/\ (pc = "run" /\ ncmd' = ncmd + 1 /\ ~io'.panicked) =>
            /\ tap # "TestLogicReset" /\ tap' # "TestLogicReset"
            /\ InState(tap, io'.wire, "TestLogicReset") = 0
       /\ (pc = "run" /\ pc' = "ready") =>
            /\ TmsOnly(io'.wire) = << Cyc(TRUE, TRUE, FALSE, 5), Cyc(FALSE, TRUE, FALSE, 1) >>
            /\ InState(tap, io'.wire, "TestLogicReset") > 0
            /\ InState(tap, io'.wire, "ShiftIR") + InState(tap, io'.wire, "UpdateIR") = 0
            /\ tap' = "RunTestIdle"
      ]_vars

\* a run() of a DR receive then an IR command has returned
C40_Witness ==
    /\ pc = "ready" /\ ncmd = 2 /\ last.op = "IrTxBits" /\ ~io.panicked
    /\ SegBytes(io.buf, 1) = 2
    /\ tap = "RunTestIdle"

====
